---- MODULE Spec2Model ----
(***************************************************************************)
(* Session persistence and caching layer of the chat subsystem             *)
(* (app/services/storage.py, app/api/v1/routes/chat.py,                    *)
(* app/services/chat.py): the in-memory cache settings.chat_sessions, the  *)
(* session index settings.session_index, the per-session files and the     *)
(* aggregate index file, the background auto-save thread and the request   *)
(* handlers that run on the event-loop thread.                             *)
(*                                                                         *)
(* Two operating-system threads exist: "main" (the asyncio event loop, on  *)
(* which every request handler, every step of a streaming response and the *)
(* shutdown hook run) and "worker" (auto_save_worker).  A handler without  *)
(* file I/O is one step of "main"; every function that touches the disk    *)
(* (save_individual_session, save_session_index, the unlink of             *)
(* delete_session) is a sequence of steps, one per file-system call, so    *)
(* the two threads interleave between those calls.  json.dump of one dict  *)
(* is taken as one snapshot of it; a read of a file is one step.           *)
(*                                                                         *)
(* Spec is the application without failures.  SpecFault adds write         *)
(* failures and the kill of the process, followed on the event-loop        *)
(* thread.  SpecRag is the persistence of one RAG session                  *)
(* (app/services/rag.py): its session file and its two vector-store files, *)
(* written by service calls that run one at a time on the event loop.      *)
(***************************************************************************)
EXTENDS Integers, Sequences, FiniteSets, TLC

\* ------------------------------------------------------------- bounds
MaxIds == 1
MaxMsgs == 3
MaxClock == 1
MaxObjs == 2
MaxStreams == 1
MaxDocs == 2
MaxTurns == 1

\* -------------------------------------------------- program constants
SaveEvery == 10

Ids == 1..MaxIds
Threads == {"main", "worker"}
Queries == {"q"}
Captions == {"cap"}

VARIABLES
    proc,           \* "down" | "up" | "shutdown" | "atexit": life of the process
    now,            \* datetime.now(), a non-decreasing clock
    nextId,         \* uuid4 values drawn so far (never repeated, also across restarts)
    heap,           \* the session dicts of this process, by reference
    chat_sessions,  \* settings.chat_sessions: insertion-ordered entries, holes where deleted
    session_index,  \* settings.session_index: insertion-ordered summaries
    files,          \* chat_data/sessions/session_<id>.json
    tmps,           \* chat_data/sessions/session_<id>.tmp
    indexFile,      \* chat_data/session_index.json
    indexTmp,       \* chat_data/session_index.tmp
    th,             \* per thread: the call it is in and its locals
    streams,        \* generate_response generators in flight
    lock,           \* settings._save_lock: "free" or the holding thread
    shutdown,       \* settings._shutdown
    deleted,        \* history: ids whose delete_session call has returned in this process
    calm,           \* history: a save_sessions call that ran undisturbed (see CalmBegin)
    dirtyAtSignal   \* history: ids whose entity was dirty when cleanup_on_exit began

VARIABLES
    ragSession,     \* rag_data/sessions/<session_id>.json of the one RAG session
    ragVector,      \* rag_data/vectors/<session_id>.faiss
    ragMeta,        \* rag_data/vectors/<session_id>_metadata.pkl
    rag             \* the RAG service call in progress and its locals

chatVars == <<proc, now, nextId, heap, chat_sessions, session_index, files, tmps,
              indexFile, indexTmp, th, streams, lock, shutdown, deleted, calm,
              dirtyAtSignal>>

VARIABLES
    session_data,   \* one chat request: the dict chat_stream works on, <<>> or <<entity>>
    gen,            \* generate_response: where it is suspended, and its locals
    wire,           \* the events the generator has yielded for this request
    client,         \* "reading" | "gone": the consumer of the response
    saved           \* what the direct save_individual_session wrote, <<>> or <<document>>

VARIABLES
    notesUp,            \* the code-notes part of the process is running
    notesDrawn,         \* uuid4 values drawn for code-notes sessions
    faiss_index,        \* core/code_notes.py faiss_index: per position the session embedded
    core_map,           \* core/code_notes.py session_ids_map: position -> session id
    services_map,       \* services/code_notes.py session_ids_map: the same dict, or its own
    sessions_data,      \* services/code_notes.py sessions_data: the session ids in memory
    sessionFolders,     \* codenotes_data/sessions/<session_id>/
    globalMapping       \* codenotes_data/global_mapping.pkl

ragVars == <<ragSession, ragVector, ragMeta, rag>>

VARIABLES
    search          \* the last similarity search: its scope, inputs and result

searchVars == <<search>>

\* chunk_text in progress: the stripped text, the parameters, the scan position
\* and the chunks collected; windows lists the slices taken so far.
VARIABLES chunker
chunkVars == <<chunker>>

\* The last caption generated, the last answer of get_session_status and the
\* last call of get_session_context.
VARIABLES capt, status, ctx
replyVars == <<capt, status, ctx>>

\* The auto-save thread seen statement by statement: settings._shutdown,
\* settings._auto_save_thread, the threads started and the caller of
\* start_auto_save and cleanup_on_exit.
VARIABLES autosave
workerVars == <<autosave>>

\* The histories of one code-notes session, in memory and in its folder.
VARIABLES notebook
versionVars == <<notebook>>

\* The last message list built for the model by a chat request.
VARIABLES prompt
promptVars == <<prompt>>

notesVars == <<notesUp, notesDrawn, faiss_index, core_map, services_map, sessions_data,
               sessionFolders, globalMapping>>

genVars == <<session_data, gen, wire, client, saved>>

\* What the actions of one part leave alone.
outsideChat == <<ragVars, genVars, notesVars, searchVars, chunkVars, replyVars, workerVars, versionVars, promptVars>>
outsideRag == <<chatVars, genVars, notesVars, searchVars, chunkVars, replyVars, workerVars, versionVars, promptVars>>
outsideGen == <<chatVars, ragVars, notesVars, searchVars, chunkVars, replyVars, workerVars, versionVars, promptVars>>
outsideNotes == <<chatVars, ragVars, genVars, searchVars, chunkVars, replyVars, workerVars, versionVars, promptVars>>

vars == <<chatVars, ragVars, genVars, notesVars, searchVars, chunkVars, replyVars, workerVars, versionVars, promptVars>>

\* ------------------------------------------------------------- files
Absent == [st |-> "absent", data |-> <<>>]
EmptyFile == [st |-> "empty", data |-> <<>>]
Complete(doc) == [st |-> "complete", data |-> doc]
Torn == [st |-> "torn", data |-> <<>>]

Exists(f) == f.st # "absent"

\* ------------------------------------------------------- json documents
\* A JSON object is the sequence of its <<key, value>> members in the order the
\* dict yields them.
Lookup(doc, key) == doc[CHOOSE i \in 1..Len(doc) : doc[i][1] = key][2]

HasKey(doc, key) == \E i \in 1..Len(doc) : doc[i][1] = key

JsonDumpDropsLastTurn(e) ==
    << <<"caption", e.caption>>,
       <<"messages", IF e.messages = <<>> THEN <<>> ELSE SubSeq(e.messages, 1, Len(e.messages) - 1)>>,
       <<"created_at", e.created_at>>,
       <<"is_new", e.is_new>>,
       <<"last_accessed", e.last_accessed>>,
       <<"_modified", e.modified>> >>

\* json.dump(session_data, f, ...): every key of the dict, "_modified" included.
JsonDump(e) ==
    << <<"caption", e.caption>>,
       <<"messages", e.messages>>,
       <<"created_at", e.created_at>>,
       <<"is_new", e.is_new>>,
       <<"last_accessed", e.last_accessed>>,
       <<"_modified", e.modified>> >>

\* json.load(f) of a session file.
JsonLoad(doc) ==
    [caption |-> Lookup(doc, "caption"),
     messages |-> Lookup(doc, "messages"),
     created_at |-> Lookup(doc, "created_at"),
     is_new |-> Lookup(doc, "is_new"),
     last_accessed |-> Lookup(doc, "last_accessed"),
     modified |-> Lookup(doc, "_modified")]

\* Length in bytes of the serialized document, up to a constant: a turn adds
\* text, "true" is one byte shorter than "false".
JsonSize(doc) ==
    10 * Len(Lookup(doc, "messages"))
    + (IF Lookup(doc, "is_new") THEN 4 ELSE 5)
    + (IF Lookup(doc, "_modified") THEN 4 ELSE 5)

\* What an inode holds after a buffered writer that opened it flushes `doc` at
\* offset 0 on close: its own bytes, followed by whatever another writer left
\* beyond them since the last truncation.
Written(f, doc) ==
    CASE f.st = "empty" -> Complete(doc)
      [] f.st = "complete" ->
            IF JsonSize(doc) >= JsonSize(f.data) THEN Complete(doc) ELSE Torn
      [] OTHER -> Torn

\* --------------------------------------------------- dicts with order
Hole == [id |-> 0, ref |-> 0]

CacheHas(d, id) == \E i \in 1..Len(d) : d[i].id = id

CacheIds(d) == {d[i].id : i \in 1..Len(d)} \ {0}

CacheRef(d, id) ==
    IF CacheHas(d, id) THEN d[CHOOSE i \in 1..Len(d) : d[i].id = id].ref ELSE 0

CacheDel(d, id) == [i \in 1..Len(d) |-> IF d[i].id = id THEN Hole ELSE d[i]]

CachePut(d, id, ref) == Append(d, [id |-> id, ref |-> ref])

DictUsed(d) == Cardinality({i \in 1..Len(d) : d[i].id # 0})

IdxHas(idx, id) == \E i \in 1..Len(idx) : idx[i].id = id

IdxIds(idx) == {idx[i].id : i \in 1..Len(idx)}

IdxGet(idx, id) == idx[CHOOSE i \in 1..Len(idx) : idx[i].id = id]

IdxPut(idx, s) ==
    IF IdxHas(idx, s.id)
    THEN [i \in 1..Len(idx) |-> IF idx[i].id = s.id THEN s ELSE idx[i]]
    ELSE Append(idx, s)

IdxDel(idx, id) == SelectSeq(idx, LAMBDA s : s.id # id)

\* ------------------------------------------------------------ threads
Rest(t) ==
    [task |-> IF t = "worker" THEN "sleep" ELSE "idle", pc |-> "-",
     it |-> 0, used |-> 0, sid |-> 0, ref |-> 0, buf |-> <<>>, fd |-> "none",
     failed |-> FALSE, outcome |-> "-"]

Other(t) == IF t = "main" THEN "worker" ELSE "main"

\* ---------------------------------------------------- storage.py: loads
\* load_individual_session: None when the file is absent or json.load raises.
LoadIndividualSession(fs, id) ==
    IF fs[id].st = "complete" THEN <<JsonLoad(fs[id].data)>> ELSE <<>>

\* load_session_index
LoadSessionIndex(f) ==
    IF f.st = "complete" /\ HasKey(f.data, "sessions") THEN Lookup(f.data, "sessions") ELSE <<>>

RECURSIVE LoadAll(_, _, _, _)
\* load_all_sessions: the loop over the index, in index order.
LoadAll(idx, i, fs, acc) ==
    IF i > Len(idx) THEN acc
    ELSE LET got == LoadIndividualSession(fs, idx[i].id)
         IN  IF got = <<>>
             THEN LoadAll(idx, i + 1, fs, acc)
             ELSE LoadAll(idx, i + 1, fs,
                          [heap |-> Append(acc.heap, got[1]),
                           cache |-> CachePut(acc.cache, idx[i].id, Len(acc.heap) + 1)])

GetSessionLazyCachesMiss(id) ==
    IF CacheHas(chat_sessions, id)
    THEN [ref |-> CacheRef(chat_sessions, id), heap |-> heap, cache |-> chat_sessions]
    ELSE IF IdxHas(session_index, id) /\ LoadIndividualSession(files, id) # <<>>
         THEN [ref |-> Len(heap) + 1,
               heap |-> Append(heap, LoadIndividualSession(files, id)[1]),
               cache |-> CachePut(chat_sessions, id, Len(heap) + 1)]
         ELSE [ref |-> 0,
               heap |-> Append(heap, [caption |-> "", messages |-> <<>>, created_at |-> now,
                                      is_new |-> FALSE, last_accessed |-> now,
                                      modified |-> FALSE]),
               cache |-> CachePut(chat_sessions, id, Len(heap) + 1)]

GetSessionLazyRereads(id) ==
    IF IdxHas(session_index, id) /\ LoadIndividualSession(files, id) # <<>>
    THEN [ref |-> Len(heap) + 1,
          heap |-> Append(heap, LoadIndividualSession(files, id)[1]),
          cache |-> CachePut(CacheDel(chat_sessions, id), id, Len(heap) + 1)]
    ELSE [ref |-> CacheRef(chat_sessions, id), heap |-> heap, cache |-> chat_sessions]

\* get_session_lazy: the reference it returns (0 for None) and the cache and
\* heap it leaves.
GetSessionLazy(id) ==
    IF CacheHas(chat_sessions, id)
    THEN [ref |-> CacheRef(chat_sessions, id), heap |-> heap, cache |-> chat_sessions]
    ELSE IF IdxHas(session_index, id) /\ LoadIndividualSession(files, id) # <<>>
         THEN [ref |-> Len(heap) + 1,
               heap |-> Append(heap, LoadIndividualSession(files, id)[1]),
               cache |-> CachePut(chat_sessions, id, Len(heap) + 1)]
         ELSE [ref |-> 0, heap |-> heap, cache |-> chat_sessions]

\* True when get_session_lazy(id) would have to allocate beyond the heap bound.
NeedsRoom(id) ==
    /\ ~CacheHas(chat_sessions, id)
    /\ IdxHas(session_index, id)
    /\ LoadIndividualSession(files, id) # <<>>
    /\ Len(heap) >= MaxObjs

\* ------------------------------------------------- entity mutations
\* chat.py create_new_session: the dict it installs.  (The timestamp of a turn
\* and the last_saved of an index record are written and never read by any
\* code; they are left out.)
NewSession(cap, t) ==
    [caption |-> cap, messages |-> <<>>, created_at |-> t, is_new |-> TRUE,
     last_accessed |-> t, modified |-> TRUE]

\* routes/chat.py chat_stream: messages.append(user_message); _modified = True
AppendUser(e, q) ==
    [e EXCEPT !.messages = Append(@, [role |-> "user", content |-> q]),
              !.modified = TRUE]

\* routes/chat.py generate_response: messages.append(bot_message); is_new = False.
\* The dirty flag is not touched here.
AppendBot(e, r) ==
    [e EXCEPT !.messages = Append(@, [role |-> "assistant", content |-> r]),
              !.is_new = FALSE]

TouchResetsCreated(e, t) == [e EXCEPT !.last_accessed = t, !.created_at = t, !.modified = TRUE]

\* last_accessed = datetime.now().isoformat(); _modified = True
Touch(e, t) == [e EXCEPT !.last_accessed = t, !.modified = TRUE]

ClearModifiedKeepsFlag(e) == e

\* storage.py save_sessions: session_data['_modified'] = False
ClearModified(e) == [e EXCEPT !.modified = FALSE]

\* storage.py save_individual_session: the index record built from the dict.
Summary(id, e) ==
    [id |-> id, caption |-> e.caption, created_at |-> e.created_at,
     last_accessed |-> e.last_accessed, message_count |-> Len(e.messages)]

\* storage.py save_session_index: the document written to the index file.
IndexDoc(idx) ==
    << <<"sessions", idx>>, <<"total_sessions", Len(idx)>> >>

\* routes/chat.py generate_response: the condition of the direct save.
DirectSave(isNew, e) == isNew \/ Len(e.messages) % SaveEvery = 0

\* A dict with integer keys, as a function; {} is the function of no keys.
EmptyDict == [k \in {} |-> 0]

\* services/code_notes.py imports the name session_ids_map from core: until the
\* services module assigns to its own global, both names are one dict.
SameAsCore == [own |-> FALSE, dict |-> EmptyDict]

\* No similarity search has been made.
NoCaption == [variant |-> "none", query |-> <<>>, answer |-> "none", len |-> 0]

NoStatus == [code |-> 0, current_questions |-> 0, total_messages |-> 0]

NoContext == [pc |-> "idle", session |-> <<>>, max_messages |-> 0, result |-> <<>>]

\* core/config.py: _auto_save_thread = None, _shutdown = False; no thread yet.
NoAutoSave == [shutdown |-> FALSE, thread |-> 0, pcs |-> <<>>, main |-> "idle", calls |-> 0]

MaxHistories == 2

\* A session of code notes just created: no history in memory or in its folder,
\* no history id drawn.
NoNotebook == [mem |-> [h \in 1..MaxHistories |-> <<>>],
               disk |-> [h \in 1..MaxHistories |-> <<>>], drawn |-> 0]

NoPrompt == [pc |-> "idle", session |-> <<>>, query |-> "", messages |-> <<>>]

NoChunker == [pc |-> "idle", text |-> <<>>, chunk_size |-> 0, overlap |-> 0, start |-> 0,
              chunks |-> <<>>, windows |-> <<>>, iters |-> 0]

NoSearch == [scope |-> "none", records |-> <<>>, k |-> 0, ranking |-> <<>>, result |-> <<>>]

\* routes/chat.py generate_response: no generator exists.
NoGenerator == [pc |-> "none", full_response |-> <<>>, is_completely_new |-> FALSE]

\* ------------------------------------------------------------ history
NoCalm == [st |-> "no", who |-> "-", written |-> {}]

\* A save_sessions call starts.  It is "calm" when it starts while the other
\* thread is at rest and no request has changed anything since; calm.st is
\* "run" while such a call runs, "done" once it has returned normally, and goes
\* back to "no" with the first step that is not part of a save_sessions call.
\* A call that starts when calm.st = "done" is a consecutive call with no
\* mutation in between.
CalmBegin(t) ==
    CASE calm.st = "done" -> calm
      [] calm.st = "no" /\ th[Other(t)].task \in {"idle", "sleep", "dead"} ->
            [st |-> "run", who |-> t, written |-> {}]
      [] OTHER -> NoCalm

CalmWrote(t, id) ==
    IF calm.st = "run" /\ calm.who = t THEN [calm EXCEPT !.written = @ \cup {id}] ELSE calm

CalmEnd(t, normal) ==
    CASE calm.st = "run" /\ calm.who = t ->
            IF normal THEN [calm EXCEPT !.st = "done"] ELSE NoCalm
      [] OTHER -> calm

\* ------------------------------------------------------ rag locals
\* No RAG service call in progress; drawn counts the document uuids drawn so far.
RagIdle(drawn) ==
    [op |-> "idle", pc |-> "-", drawn |-> drawn,
     data |-> [documents |-> {}, turns |-> 0, chunk_count |-> [d \in 1..MaxDocs |-> 0]], index |-> <<>>, metadata |-> <<>>]

\* ---------------------------------------------------------------- init
Init ==
    /\ proc = "down" /\ now = 0 /\ nextId = 0
    /\ heap = <<>> /\ chat_sessions = <<>> /\ session_index = <<>>
    /\ files = [i \in Ids |-> Absent] /\ tmps = [i \in Ids |-> Absent]
    /\ indexFile = Absent /\ indexTmp = Absent
    /\ th = [t \in Threads |-> [Rest(t) EXCEPT !.task = "dead"]]
    /\ streams = {} /\ lock = "free" /\ shutdown = FALSE
    /\ deleted = {} /\ calm = NoCalm /\ dirtyAtSignal = {}
    /\ ragSession = Absent /\ ragVector = Absent /\ ragMeta = Absent
    /\ rag = RagIdle(0)
    /\ session_data = <<>> /\ gen = NoGenerator /\ wire = <<>>
    /\ client = "reading" /\ saved = <<>>
    /\ notesUp = FALSE /\ notesDrawn = 0 /\ faiss_index = <<>>
    /\ core_map = EmptyDict /\ services_map = SameAsCore
    /\ sessions_data = {} /\ sessionFolders = {} /\ globalMapping = Absent
    /\ search = NoSearch
    /\ chunker = NoChunker
    /\ capt = NoCaption /\ status = NoStatus /\ ctx = NoContext
    /\ autosave = NoAutoSave
    /\ notebook = NoNotebook
    /\ prompt = NoPrompt

MainIdle == proc = "up" /\ th["main"].task = "idle"

\* main.py startup_event: load_all_sessions(), then start_auto_save().
Startup ==
    /\ proc = "down"
    /\ LET idx == LoadSessionIndex(indexFile)
           all == LoadAll(idx, 1, files, [heap |-> <<>>, cache |-> <<>>])
       IN  /\ session_index' = idx
           /\ heap' = all.heap
           /\ chat_sessions' = all.cache
    /\ th' = [t \in Threads |-> Rest(t)]
    /\ proc' = "up" /\ shutdown' = FALSE /\ lock' = "free" /\ streams' = {}
    /\ calm' = NoCalm
    /\ UNCHANGED <<now, nextId, files, tmps, indexFile, indexTmp, deleted>>
    /\ UNCHANGED <<outsideChat, dirtyAtSignal>>

\* datetime.now(): a reading returns the previous reading or a later time.
Readings == {now} \cup (IF now < MaxClock THEN {now + 1} ELSE {})

\* A session dict nothing refers to any more (the cache entry deleted, no
\* thread and no open response holding it) is freed by the interpreter.
Garbage == [caption |-> "", messages |-> <<>>, created_at |-> 0, is_new |-> FALSE,
            last_accessed |-> 0, modified |-> FALSE]

Collect(h, cache, thr, strs) ==
    LET live == {cache[i].ref : i \in 1..Len(cache)} \cup {thr[t].ref : t \in Threads}
                  \cup {s.ref : s \in strs}
    IN  [i \in 1..Len(h) |-> IF i \in live THEN h[i] ELSE Garbage]

\* ------------------------------------------------ request handlers
\* POST /chat without session_id: create_new_session, get_session_lazy, the
\* user turn, and the StreamingResponse handed back.  created_at and
\* last_accessed are one reading of the clock, the time the model counts from.
ChatNew(q, cap) ==
    /\ MainIdle
    /\ nextId < MaxIds /\ Len(heap) < MaxObjs /\ Cardinality(streams) < MaxStreams
    /\ LET id == nextId + 1
           ref == Len(heap) + 1
       IN  /\ nextId' = id
           /\ heap' = Append(heap, AppendUser(NewSession(cap, now), q))
           /\ chat_sessions' = CachePut(chat_sessions, id, ref)
           /\ streams' = streams \cup
                {[sid |-> id, ref |-> ref, is_new |-> TRUE, q |-> q, stage |-> "meta"]}
    /\ calm' = NoCalm
    /\ UNCHANGED <<proc, now, session_index, files, tmps, indexFile, indexTmp, th,
                   lock, shutdown, deleted>>
    /\ UNCHANGED <<outsideChat, dirtyAtSignal>>

\* POST /chat with a session_id: 404 when get_session_lazy finds nothing.
ChatStream(id, q) ==
    /\ MainIdle
    /\ Cardinality(streams) < MaxStreams
    /\ ~NeedsRoom(id)
    /\ LET g == GetSessionLazy(id)
       IN  IF g.ref = 0
           THEN UNCHANGED <<heap, chat_sessions, streams, calm>>
           ELSE /\ Len(g.heap[g.ref].messages) + 2 <= MaxMsgs
                /\ heap' = [g.heap EXCEPT ![g.ref] = AppendUser(@, q)]
                /\ chat_sessions' = g.cache
                /\ streams' = streams \cup
                     {[sid |-> id, ref |-> g.ref, is_new |-> FALSE, q |-> q,
                       stage |-> "meta"]}
                /\ calm' = NoCalm
    /\ UNCHANGED <<proc, now, nextId, session_index, files, tmps, indexFile, indexTmp,
                   th, lock, shutdown, deleted>>
    /\ UNCHANGED <<outsideChat, dirtyAtSignal>>

\* generate_response up to the first fragment: bot_timestamp, the metadata event,
\* and the start of get_ollama_streaming_response (get_session_lazy again,
\* last_accessed, _modified).  When the session is gone the generator raises.
StreamStart(s, t) ==
    /\ MainIdle
    /\ s \in streams /\ s.stage = "meta"
    /\ ~NeedsRoom(s.sid)
    /\ LET g == GetSessionLazy(s.sid)
       IN  IF g.ref = 0
           THEN /\ t = now
                /\ streams' = streams \ {s}
                /\ chat_sessions' = chat_sessions
                /\ heap' = Collect(heap, chat_sessions, th, streams')
           ELSE /\ heap' = [g.heap EXCEPT ![g.ref] = Touch(@, t)]
                /\ chat_sessions' = g.cache
                /\ streams' = (streams \ {s}) \cup {[s EXCEPT !.stage = "body"]}
    /\ calm' = NoCalm
    /\ now' = t
    /\ UNCHANGED <<proc, nextId, session_index, files, tmps, indexFile, indexTmp,
                   th, lock, shutdown, deleted>>
    /\ UNCHANGED <<outsideChat, dirtyAtSignal>>

\* generate_response after the last fragment: the assistant turn, is_new, and
\* the direct save_individual_session for a new session or every tenth turn.
StreamFinish(s, r) ==
    /\ MainIdle
    /\ s \in streams /\ s.stage = "body"
    /\ Len(heap[s.ref].messages) < MaxMsgs
    /\ LET e == AppendBot(heap[s.ref], r)
       IN  /\ th' = IF DirectSave(s.is_new, e)
                    THEN [th EXCEPT !["main"] =
                            [Rest("main") EXCEPT !.task = "stream", !.pc = "sis_open",
                                                 !.sid = s.sid, !.ref = s.ref]]
                    ELSE th
           /\ streams' = streams \ {s}
           /\ heap' = Collect([heap EXCEPT ![s.ref] = e], chat_sessions, th', streams')
    /\ calm' = NoCalm
    /\ UNCHANGED <<proc, now, nextId, chat_sessions, session_index, files, tmps,
                   indexFile, indexTmp, lock, shutdown, deleted>>
    /\ UNCHANGED <<outsideChat, dirtyAtSignal>>

\* The model call raises, or the client stops reading and the generator is
\* closed at a yield: nothing after the yield runs.
StreamDrop(s) ==
    /\ MainIdle
    /\ s \in streams
    /\ streams' = streams \ {s}
    /\ heap' = Collect(heap, chat_sessions, th, streams')
    /\ UNCHANGED <<proc, now, nextId, chat_sessions, session_index, files, tmps,
                   indexFile, indexTmp, th, lock, shutdown, deleted, calm>>
    /\ UNCHANGED <<outsideChat, dirtyAtSignal>>

\* GET /history/{id}
GetHistory(id, t) ==
    /\ MainIdle
    /\ ~NeedsRoom(id)
    /\ LET g == GetSessionLazy(id)
       IN  IF g.ref = 0
           THEN t = now /\ UNCHANGED <<heap, chat_sessions, calm>>
           ELSE /\ heap' = [g.heap EXCEPT ![g.ref] = Touch(@, t)]
                /\ chat_sessions' = g.cache
                /\ calm' = NoCalm
    /\ now' = t
    /\ UNCHANGED <<proc, nextId, session_index, files, tmps, indexFile, indexTmp,
                   th, streams, lock, shutdown, deleted>>
    /\ UNCHANGED <<outsideChat, dirtyAtSignal>>

\* GET /history/{caption}: the first index record with that caption whose
\* session get_session_lazy finds.
GetHistoryByCaption(cap, t) ==
    /\ MainIdle
    /\ LET hits == {i \in 1..Len(session_index) :
                      /\ session_index[i].caption = cap
                      /\ GetSessionLazy(session_index[i].id).ref # 0}
       IN  IF hits = {}
           THEN t = now /\ UNCHANGED <<heap, chat_sessions, calm>>
           ELSE LET id == session_index[CHOOSE i \in hits : \A j \in hits : i <= j].id
                    g == GetSessionLazy(id)
                IN  /\ ~NeedsRoom(id)
                    /\ heap' = [g.heap EXCEPT ![g.ref] = Touch(@, t)]
                    /\ chat_sessions' = g.cache
                    /\ calm' = NoCalm
    /\ now' = t
    /\ UNCHANGED <<proc, nextId, session_index, files, tmps, indexFile, indexTmp,
                   th, streams, lock, shutdown, deleted>>
    /\ UNCHANGED <<outsideChat, dirtyAtSignal>>

\* GET /session/{id}/status: reads only, but through get_session_lazy.
GetStatus(id) ==
    /\ MainIdle
    /\ ~NeedsRoom(id)
    /\ LET g == GetSessionLazy(id)
       IN  /\ heap' = g.heap
           /\ chat_sessions' = g.cache
           /\ calm' = IF g.cache = chat_sessions THEN calm ELSE NoCalm
    /\ UNCHANGED <<proc, now, nextId, session_index, files, tmps, indexFile, indexTmp,
                   th, streams, lock, shutdown, deleted>>
    /\ UNCHANGED <<outsideChat, dirtyAtSignal>>

\* DELETE /session/{id}, for an id the server has issued: the two dict
\* deletions; the unlink and the index save follow as steps of the thread.
DeleteSession(id) ==
    /\ MainIdle
    /\ id <= nextId
    /\ chat_sessions' = CacheDel(chat_sessions, id)
    /\ session_index' = IdxDel(session_index, id)
    /\ th' = [th EXCEPT !["main"] =
                [Rest("main") EXCEPT !.task = "delete", !.pc = "unlink", !.sid = id]]
    /\ heap' = Collect(heap, chat_sessions', th', streams)
    /\ calm' = NoCalm
    /\ UNCHANGED <<proc, now, nextId, files, tmps, indexFile, indexTmp, streams,
                   lock, shutdown, deleted>>
    /\ UNCHANGED <<outsideChat, dirtyAtSignal>>

\* POST /save: save_sessions() on the event-loop thread.
ManualSave ==
    /\ MainIdle
    /\ th' = [th EXCEPT !["main"] =
                [Rest("main") EXCEPT !.task = "save", !.pc = "next",
                                     !.used = DictUsed(chat_sessions)]]
    /\ calm' = CalmBegin("main")
    /\ UNCHANGED <<proc, now, nextId, heap, chat_sessions, session_index, files, tmps,
                   indexFile, indexTmp, streams, lock, shutdown, deleted>>
    /\ UNCHANGED <<outsideChat, dirtyAtSignal>>

\* ------------------------------------------------------ thread steps
\* Where a thread goes when the call it is in (save_sessions,
\* save_session_index of delete_session) returns.
Return(t) ==
    CASE th[t].task = "cleanup" -> [Rest(t) EXCEPT !.task = "cleanup", !.pc = "done"]
      [] th[t].task = "save" /\ t = "worker" ->
            [Rest(t) EXCEPT !.task = IF shutdown THEN "dead" ELSE "sleep"]
      [] OTHER -> Rest(t)

\* save_individual_session returns (normally, also after its except clause):
\* generate_response goes on to its last yield, save_sessions to the statement
\* that clears the flag.
AfterSis(t, failed) ==
    IF th[t].task = "stream"
    THEN Rest(t)
    ELSE [th[t] EXCEPT !.pc = "clear", !.fd = "none", !.failed = failed,
                       !.outcome = "returned"]

\* The dict iterator's next entry after position pos: 0 when exhausted.
NextEntry(d, pos) ==
    IF \E i \in (pos + 1)..Len(d) : d[i].id # 0
    THEN CHOOSE i \in (pos + 1)..Len(d) :
            d[i].id # 0 /\ \A j \in (pos + 1)..Len(d) : d[j].id # 0 => i <= j
    ELSE 0

\* The descriptor another thread holds on session id's temporary file, after
\* the path was renamed over the canonical one (or the canonical one unlinked).
Moved(r, id) ==
    IF r.sid = id /\ r.fd = "tmp" THEN [r EXCEPT !.fd = "canon"]
    ELSE IF r.sid = id /\ r.fd = "canon" THEN [r EXCEPT !.fd = "lost"]
    ELSE r

Unlinked(r, id) ==
    IF r.sid = id /\ r.fd = "canon" THEN [r EXCEPT !.fd = "lost"] ELSE r

\* save_sessions: one turn of `for session_id, session_data in
\* settings.chat_sessions.items()` with the test of the flag.  A dict whose
\* size changed since the iterator was made raises RuntimeError, which the
\* except clause of save_sessions swallows: the call returns without
\* save_session_index.
FlushNext(t) ==
    /\ th[t].task \in {"save", "cleanup"} /\ th[t].pc = "next"
    /\ IF DictUsed(chat_sessions) # th[t].used
       THEN /\ th' = [th EXCEPT ![t] = Return(t)]
            /\ calm' = CalmEnd(t, FALSE)
       ELSE LET j == NextEntry(chat_sessions, th[t].it)
            IN  /\ th' = [th EXCEPT ![t] =
                        IF j = 0
                        THEN [@ EXCEPT !.pc = "idx_lock", !.sid = 0, !.ref = 0,
                                       !.buf = <<>>, !.failed = FALSE, !.outcome = "-"]
                        ELSE [@ EXCEPT !.it = j, !.sid = chat_sessions[j].id,
                                       !.ref = chat_sessions[j].ref, !.buf = <<>>,
                                       !.failed = FALSE, !.outcome = "-",
                                       !.pc = IF heap[chat_sessions[j].ref].modified
                                              THEN "sis_open" ELSE "next"]]
                /\ calm' = calm
    /\ heap' = Collect(heap, chat_sessions, th', streams)
    /\ UNCHANGED <<proc, now, nextId, chat_sessions, session_index, files, tmps,
                   indexFile, indexTmp, streams, lock, shutdown, deleted>>
    /\ UNCHANGED <<outsideChat, dirtyAtSignal>>

\* save_individual_session: open(temp_file, 'w') creates or truncates
\* session_<id>.tmp.
SisOpen(t) ==
    /\ th[t].pc = "sis_open"
    /\ tmps' = [tmps EXCEPT ![th[t].sid] = EmptyFile]
    /\ th' = [th EXCEPT ![t].pc = "sis_write", ![t].fd = "tmp"]
    /\ UNCHANGED <<proc, now, nextId, heap, chat_sessions, session_index, files,
                   indexFile, indexTmp, streams, lock, shutdown, deleted, calm>>
    /\ UNCHANGED <<outsideChat, dirtyAtSignal>>

\* save_individual_session: json.dump and the close of the with block; the
\* bytes go to whatever inode the descriptor is on by now.
SisWrite(t) ==
    /\ th[t].pc = "sis_write"
    /\ LET id == th[t].sid
           doc == JsonDump(heap[th[t].ref])
       IN  /\ tmps' = IF th[t].fd = "tmp"
                      THEN [tmps EXCEPT ![id] = Written(@, doc)] ELSE tmps
           /\ files' = IF th[t].fd = "canon"
                       THEN [files EXCEPT ![id] = Written(@, doc)] ELSE files
    /\ th' = [th EXCEPT ![t].pc = "sis_replace", ![t].fd = "none",
                         ![t].buf = JsonDump(heap[th[t].ref])]
    /\ UNCHANGED <<proc, now, nextId, heap, chat_sessions, session_index,
                   indexFile, indexTmp, streams, lock, shutdown, deleted, calm>>
    /\ UNCHANGED <<outsideChat, dirtyAtSignal>>

\* save_individual_session: temp_file.replace(session_file).  With the
\* temporary path gone (the other thread renamed it) it raises
\* FileNotFoundError, which the except clause prints.
SisReplace(t) ==
    /\ th[t].pc = "sis_replace"
    /\ LET id == th[t].sid
       IN  IF Exists(tmps[id])
           THEN /\ files' = [files EXCEPT ![id] = tmps[id]]
                /\ tmps' = [tmps EXCEPT ![id] = Absent]
                /\ th' = [u \in Threads |->
                            IF u = t THEN [th[t] EXCEPT !.pc = "sis_index"]
                            ELSE Moved(th[u], id)]
                /\ calm' = CalmWrote(t, id)
           ELSE /\ th' = [th EXCEPT ![t] = AfterSis(t, TRUE)]
                /\ UNCHANGED <<files, tmps, calm>>
    /\ heap' = Collect(heap, chat_sessions, th', streams)
    /\ UNCHANGED <<proc, now, nextId, chat_sessions, session_index,
                   indexFile, indexTmp, streams, lock, shutdown, deleted>>
    /\ UNCHANGED <<outsideChat, dirtyAtSignal>>

\* save_individual_session: settings.session_index[session_id] = {...}, read
\* from the dict as it is now.
SisIndex(t) ==
    /\ th[t].pc = "sis_index"
    /\ session_index' = IdxPut(session_index, Summary(th[t].sid, heap[th[t].ref]))
    /\ th' = [th EXCEPT ![t] = AfterSis(t, FALSE)]
    /\ heap' = Collect(heap, chat_sessions, th', streams)
    /\ UNCHANGED <<proc, now, nextId, chat_sessions, files, tmps,
                   indexFile, indexTmp, streams, lock, shutdown, deleted, calm>>
    /\ UNCHANGED <<outsideChat, dirtyAtSignal>>

\* save_sessions: session_data['_modified'] = False
FlushClear(t) ==
    /\ th[t].pc = "clear"
    /\ heap' = [heap EXCEPT ![th[t].ref] = ClearModified(@)]
    /\ th' = [th EXCEPT ![t].pc = "next"]
    /\ UNCHANGED <<proc, now, nextId, chat_sessions, session_index, files, tmps,
                   indexFile, indexTmp, streams, lock, shutdown, deleted, calm>>
    /\ UNCHANGED <<outsideChat, dirtyAtSignal>>

IdxLockNoWait(t) ==
    /\ th[t].pc = "idx_lock"
    /\ lock' = t
    /\ indexTmp' = EmptyFile
    /\ th' = [th EXCEPT ![t].pc = "idx_close", ![t].used = Len(session_index)]
    /\ UNCHANGED <<proc, now, nextId, heap, chat_sessions, session_index, files, tmps,
                   indexFile, streams, shutdown, deleted, calm>>
    /\ UNCHANGED <<outsideChat, dirtyAtSignal>>

\* save_session_index: the lock, the document, open(temp_file, 'w'), and the
\* start of json.dump over settings.session_index.
IdxLock(t) ==
    /\ th[t].pc = "idx_lock"
    /\ lock = "free"
    /\ lock' = t
    /\ indexTmp' = EmptyFile
    /\ th' = [th EXCEPT ![t].pc = "idx_close", ![t].used = Len(session_index)]
    /\ UNCHANGED <<proc, now, nextId, heap, chat_sessions, session_index, files, tmps,
                   indexFile, streams, shutdown, deleted, calm>>
    /\ UNCHANGED <<outsideChat, dirtyAtSignal>>

\* save_session_index: the end of json.dump and the close.  An index whose size
\* changed under the encoder raises RuntimeError: the lock is released, the
\* canonical file is not touched, the call returns.
IdxClose(t) ==
    /\ th[t].pc = "idx_close"
    /\ IF Len(session_index) # th[t].used
       THEN /\ indexTmp' = Torn
            /\ lock' = "free"
            /\ th' = [th EXCEPT ![t] = Return(t)]
            /\ deleted' = IF th[t].task = "delete" THEN deleted \cup {th[t].sid} ELSE deleted
            /\ calm' = CalmEnd(t, FALSE)
       ELSE /\ indexTmp' = Complete(IndexDoc(session_index))
            /\ th' = [th EXCEPT ![t].pc = "idx_replace"]
            /\ UNCHANGED <<lock, deleted, calm>>
    /\ UNCHANGED <<proc, now, nextId, heap, chat_sessions, session_index, files, tmps,
                   indexFile, streams, shutdown>>
    /\ UNCHANGED <<outsideChat, dirtyAtSignal>>

\* save_session_index: temp_file.replace(SESSION_INDEX_FILE) and the release of
\* the lock; the caller returns.
IdxReplace(t) ==
    /\ th[t].pc = "idx_replace"
    /\ indexFile' = indexTmp
    /\ indexTmp' = Absent
    /\ lock' = "free"
    /\ th' = [th EXCEPT ![t] = Return(t)]
    /\ deleted' = IF th[t].task = "delete" THEN deleted \cup {th[t].sid} ELSE deleted
    /\ calm' = CalmEnd(t, TRUE)
    /\ UNCHANGED <<proc, now, nextId, heap, chat_sessions, session_index, files, tmps,
                   streams, shutdown>>
    /\ UNCHANGED <<outsideChat, dirtyAtSignal>>

\* delete_session: if session_file.exists(): session_file.unlink()
Unlink(t) ==
    /\ th[t].pc = "unlink"
    /\ files' = [files EXCEPT ![th[t].sid] = Absent]
    /\ th' = [u \in Threads |->
                IF u = t THEN [th[t] EXCEPT !.pc = "idx_lock"]
                ELSE Unlinked(th[u], th[t].sid)]
    /\ UNCHANGED <<proc, now, nextId, heap, chat_sessions, session_index, tmps,
                   indexFile, indexTmp, streams, lock, shutdown, deleted, calm>>
    /\ UNCHANGED <<outsideChat, dirtyAtSignal>>

\* auto_save_worker: time.sleep(30) is over.
WorkerWake ==
    /\ th["worker"].task = "sleep"
    /\ IF shutdown
       THEN /\ th' = [th EXCEPT !["worker"].task = "dead"]
            /\ calm' = calm
       ELSE IF DictUsed(chat_sessions) > 0 \/ Len(session_index) > 0
            THEN /\ th' = [th EXCEPT !["worker"] =
                            [Rest("worker") EXCEPT !.task = "save", !.pc = "next",
                                                   !.used = DictUsed(chat_sessions)]]
                 /\ calm' = CalmBegin("worker")
            ELSE UNCHANGED <<th, calm>>
    /\ UNCHANGED <<proc, now, nextId, heap, chat_sessions, session_index, files, tmps,
                   indexFile, indexTmp, streams, lock, shutdown, deleted>>
    /\ UNCHANGED <<outsideChat, dirtyAtSignal>>

\* main.py shutdown_event -> cleanup_on_exit: the flag; responses still open
\* were ended by the server before the hook runs.
CleanupOnExit ==
    /\ MainIdle
    /\ shutdown' = TRUE
    /\ proc' = "shutdown"
    /\ streams' = {}
    /\ th' = [th EXCEPT !["main"] = [Rest("main") EXCEPT !.task = "cleanup", !.pc = "join"]]
    /\ heap' = Collect(heap, chat_sessions, th', streams')
    /\ dirtyAtSignal' = {id \in CacheIds(chat_sessions) :
                            heap[CacheRef(chat_sessions, id)].modified}
    /\ UNCHANGED <<now, nextId, chat_sessions, session_index, files, tmps,
                   indexFile, indexTmp, lock, deleted, calm>>
    /\ UNCHANGED outsideChat

\* cleanup_on_exit: join(timeout=5) returns, the worker dead or not, and the
\* final save_sessions starts.
Join ==
    /\ th["main"].task = "cleanup" /\ th["main"].pc = "join"
    /\ IF DictUsed(chat_sessions) > 0 \/ Len(session_index) > 0
       THEN /\ th' = [th EXCEPT !["main"].pc = "next",
                                !["main"].used = DictUsed(chat_sessions)]
            /\ calm' = CalmBegin("main")
       ELSE /\ th' = [th EXCEPT !["main"].pc = "done"]
            /\ calm' = calm
    /\ UNCHANGED <<proc, now, nextId, heap, chat_sessions, session_index, files, tmps,
                   indexFile, indexTmp, streams, lock, shutdown, deleted>>
    /\ UNCHANGED <<outsideChat, dirtyAtSignal>>

\* The process is gone: its memory and its threads with it, the disk stays.
ProcessGone ==
    /\ proc' = "down"
    /\ heap' = <<>> /\ chat_sessions' = <<>> /\ session_index' = <<>>
    /\ th' = [t \in Threads |-> [Rest(t) EXCEPT !.task = "dead"]]
    /\ streams' = {} /\ lock' = "free" /\ shutdown' = FALSE
    /\ calm' = NoCalm /\ deleted' = {} /\ dirtyAtSignal' = {}
    /\ UNCHANGED <<now, nextId, files, tmps, indexFile, indexTmp>>
    /\ UNCHANGED outsideChat

\* cleanup_on_exit has returned: after the shutdown hook, atexit runs it once
\* more (main.py atexit.register); after that the interpreter exits and the
\* daemon thread dies wherever it is.
CleanupDone ==
    /\ th["main"].task = "cleanup" /\ th["main"].pc = "done"
    /\ IF proc = "shutdown"
       THEN /\ proc' = "atexit"
            /\ th' = [th EXCEPT !["main"].pc = "join"]
            /\ UNCHANGED <<now, nextId, heap, chat_sessions, session_index, files, tmps,
                           indexFile, indexTmp, streams, lock, shutdown, deleted, calm>>
            /\ UNCHANGED <<outsideChat, dirtyAtSignal>>
       ELSE ProcessGone

Step(t) ==
    \/ FlushNext(t)
    \/ SisOpen(t)
    \/ SisWrite(t)
    \/ SisReplace(t)
    \/ SisIndex(t)
    \/ FlushClear(t)
    \/ IdxLock(t)
    \/ IdxClose(t)
    \/ IdxReplace(t)
    \/ Unlink(t)

Request ==
    \/ \E q \in Queries, cap \in Captions : ChatNew(q, cap)
    \/ \E id \in Ids, q \in Queries : ChatStream(id, q)
    \/ \E s \in streams, t \in Readings : StreamStart(s, t)
    \/ \E s \in streams : StreamFinish(s, "r")
    \/ \E s \in streams : StreamDrop(s)
    \/ \E id \in Ids, t \in Readings : GetHistory(id, t)
    \/ \E cap \in Captions, t \in Readings : GetHistoryByCaption(cap, t)
    \/ \E id \in Ids : GetStatus(id)
    \/ \E id \in Ids : DeleteSession(id)
    \/ ManualSave

Next ==
    \/ Startup
    \/ Request
    \/ \E t \in Threads : Step(t)
    \/ WorkerWake
    \/ CleanupOnExit
    \/ Join
    \/ CleanupDone

Spec == Init /\ [][Next]_vars

\* ------------------------------------------------------------- faults
\* The process is killed.
Crash ==
    /\ proc # "down"
    /\ ProcessGone

\* open() or the write of save_individual_session raises (disk full, no
\* permission): the except clause prints and the function returns.
SisFail(t) ==
    /\ th[t].pc \in {"sis_open", "sis_write"}
    /\ th' = [th EXCEPT ![t] = AfterSis(t, TRUE)]
    /\ heap' = Collect(heap, chat_sessions, th', streams)
    /\ UNCHANGED <<proc, now, nextId, chat_sessions, session_index, files, tmps,
                   indexFile, indexTmp, streams, lock, shutdown, deleted, calm>>
    /\ UNCHANGED <<outsideChat, dirtyAtSignal>>

\* The write of save_session_index raises: the with block releases the lock,
\* the except clause prints and the function returns.
IdxFail(t) ==
    /\ th[t].pc = "idx_close"
    /\ lock' = "free"
    /\ th' = [th EXCEPT ![t] = Return(t)]
    /\ deleted' = IF th[t].task = "delete" THEN deleted \cup {th[t].sid} ELSE deleted
    /\ calm' = CalmEnd(t, FALSE)
    /\ UNCHANGED <<proc, now, nextId, heap, chat_sessions, session_index, files, tmps,
                   indexFile, indexTmp, streams, shutdown>>
    /\ UNCHANGED <<outsideChat, dirtyAtSignal>>

\* Failures and crashes are followed on the event-loop thread: the worker stays
\* in its time.sleep(30), which no flag interrupts, for the life of the process.
FaultNext ==
    \/ Startup
    \/ Request
    \/ Step("main")
    \/ CleanupOnExit
    \/ Join
    \/ CleanupDone
    \/ Crash
    \/ SisFail("main")
    \/ IdxFail("main")

SpecFault == Init /\ [][FaultNext]_vars

\* ------------------------------------------------ services/rag.py
\* One RAG session.  Its session data is the set of document ids and the number
\* of question/answer turns; its vector store is one vector and one metadata
\* record per chunk, a document being one chunk here.
\* load_session_data: None without the file; json.load raises on a file that
\* is not a complete document.  Either way the service call ends there.
LoadSessionData == IF ragSession.st = "complete" THEN <<ragSession.data>> ELSE <<>>

\* load_vector_store: (None, []) unless both files exist; faiss.read_index or
\* pickle.load raises on a file that is not complete.
LoadVectorStore ==
    IF Exists(ragVector) /\ Exists(ragMeta)
    THEN IF ragVector.st = "complete" /\ ragMeta.st = "complete"
         THEN [ok |-> TRUE, none |-> FALSE, index |-> ragVector.data, metadata |-> ragMeta.data]
         ELSE [ok |-> FALSE, none |-> FALSE, index |-> <<>>, metadata |-> <<>>]
    ELSE [ok |-> TRUE, none |-> TRUE, index |-> <<>>, metadata |-> <<>>]

\* create_session_service: a fresh session dict, then save_session_data.
RagCreate ==
    /\ rag.op = "idle" /\ ~Exists(ragSession)
    /\ rag' = [rag EXCEPT !.op = "create", !.pc = "ses_open",
                          !.data = [documents |-> {}, turns |-> 0, chunk_count |-> [d \in 1..MaxDocs |-> 0]]]
    /\ UNCHANGED <<ragSession, ragVector, ragMeta>>
    /\ UNCHANGED outsideRag

\* upload_documents_service with one file: the loads, the new document id, its
\* vector and metadata record, the entry in session_data['documents']; the two
\* saves follow as steps.
RagUpload ==
    /\ rag.op = "idle" /\ rag.drawn < MaxDocs
    /\ LoadSessionData # <<>> /\ LoadVectorStore.ok
    /\ LET d == rag.drawn + 1
           v == LoadVectorStore
       IN  rag' = [op |-> "upload", pc |-> "vec_open", drawn |-> d,
                   data |-> [LoadSessionData[1] EXCEPT !.documents = @ \cup {d},
                                                      !.chunk_count[d] = 1],
                   index |-> Append(v.index, d),
                   metadata |-> Append(v.metadata, [document_id |-> d, chunk_index |-> 0])]
    /\ UNCHANGED <<ragSession, ragVector, ragMeta>>
    /\ UNCHANGED outsideRag

\* chat_service: needs a vector store; the two messages of the turn are added
\* to the history, then save_session_data.
RagChat ==
    /\ rag.op = "idle"
    /\ LoadSessionData # <<>> /\ LoadVectorStore.ok /\ ~LoadVectorStore.none
    /\ LoadSessionData[1].turns < MaxTurns
    /\ rag' = [rag EXCEPT !.op = "chat", !.pc = "ses_open",
                          !.data = [LoadSessionData[1] EXCEPT !.turns = @ + 1]]
    /\ UNCHANGED <<ragSession, ragVector, ragMeta>>
    /\ UNCHANGED outsideRag

RagDeleteDocumentDropsFirst(d) ==
    /\ rag.op = "idle"
    /\ LoadSessionData # <<>> /\ d \in LoadSessionData[1].documents
    /\ LoadVectorStore.ok
    /\ LET v == LoadVectorStore
           new_metadata == IF v.metadata = <<>> THEN <<>> ELSE Tail(v.metadata)
       IN  rag' = [rag EXCEPT
                     !.op = "delete_document",
                     !.data = [LoadSessionData[1] EXCEPT !.documents = @ \ {d},
                                                        !.chunk_count[d] = 0],
                     !.metadata = new_metadata,
                     !.index = [i \in 1..Len(new_metadata) |-> new_metadata[i].document_id],
                     !.pc = IF v.none THEN "ses_open"
                            ELSE IF new_metadata # <<>> THEN "vec_open" ELSE "vec_unlink"]
    /\ UNCHANGED <<ragSession, ragVector, ragMeta>>
    /\ UNCHANGED outsideRag

\* delete_document_service: the document leaves session_data, the vector store
\* is rebuilt from the metadata that remains, or unlinked when none remains.
RagDeleteDocument(d) ==
    /\ rag.op = "idle"
    /\ LoadSessionData # <<>> /\ d \in LoadSessionData[1].documents
    /\ LoadVectorStore.ok
    /\ LET v == LoadVectorStore
           new_metadata == SelectSeq(v.metadata, LAMBDA m : m.document_id # d)
       IN  rag' = [rag EXCEPT
                     !.op = "delete_document",
                     !.data = [LoadSessionData[1] EXCEPT !.documents = @ \ {d},
                                                        !.chunk_count[d] = 0],
                     !.metadata = new_metadata,
                     !.index = [i \in 1..Len(new_metadata) |-> new_metadata[i].document_id],
                     !.pc = IF v.none THEN "ses_open"
                            ELSE IF new_metadata # <<>> THEN "vec_open" ELSE "vec_unlink"]
    /\ UNCHANGED <<ragSession, ragVector, ragMeta>>
    /\ UNCHANGED outsideRag

\* save_vector_store: faiss.write_index opens the canonical .faiss path for
\* writing, which truncates it.
RagVecOpen ==
    /\ rag.pc = "vec_open"
    /\ ragVector' = EmptyFile
    /\ rag' = [rag EXCEPT !.pc = "vec_write"]
    /\ UNCHANGED <<ragSession, ragMeta>>
    /\ UNCHANGED outsideRag

\* save_vector_store: faiss.write_index writes the index and closes.
RagVecWrite ==
    /\ rag.pc = "vec_write"
    /\ ragVector' = Complete(rag.index)
    /\ rag' = [rag EXCEPT !.pc = "meta_open"]
    /\ UNCHANGED <<ragSession, ragMeta>>
    /\ UNCHANGED outsideRag

\* save_vector_store: open(metadata_file, 'wb')
RagMetaOpen ==
    /\ rag.pc = "meta_open"
    /\ ragMeta' = EmptyFile
    /\ rag' = [rag EXCEPT !.pc = "meta_write"]
    /\ UNCHANGED <<ragSession, ragVector>>
    /\ UNCHANGED outsideRag

\* save_vector_store: pickle.dump and the close.
RagMetaWrite ==
    /\ rag.pc = "meta_write"
    /\ ragMeta' = Complete(rag.metadata)
    /\ rag' = [rag EXCEPT !.pc = "ses_open"]
    /\ UNCHANGED <<ragSession, ragVector>>
    /\ UNCHANGED outsideRag

\* delete_document_service: vector_file.unlink(), metadata_file.unlink()
RagVecUnlink ==
    /\ rag.pc = "vec_unlink"
    /\ ragVector' = Absent
    /\ rag' = [rag EXCEPT !.pc = "meta_unlink"]
    /\ UNCHANGED <<ragSession, ragMeta>>
    /\ UNCHANGED outsideRag

RagMetaUnlink ==
    /\ rag.pc = "meta_unlink"
    /\ ragMeta' = Absent
    /\ rag' = [rag EXCEPT !.pc = "ses_open"]
    /\ UNCHANGED <<ragSession, ragVector>>
    /\ UNCHANGED outsideRag

\* save_session_data: open(session_file, 'w') on the canonical path.
RagSesOpen ==
    /\ rag.pc = "ses_open"
    /\ ragSession' = EmptyFile
    /\ rag' = [rag EXCEPT !.pc = "ses_write"]
    /\ UNCHANGED <<ragVector, ragMeta>>
    /\ UNCHANGED outsideRag

\* save_session_data: json.dump and the close; the service call returns.
RagSesWrite ==
    /\ rag.pc = "ses_write"
    /\ ragSession' = Complete(rag.data)
    /\ rag' = RagIdle(rag.drawn)
    /\ UNCHANGED <<ragVector, ragMeta>>
    /\ UNCHANGED outsideRag

\* The write raises (disk full): upload_documents_service appends to errors,
\* the other services let it reach the route; the call is over and the file
\* stays as the open left it.
RagWriteFail ==
    /\ rag.pc \in {"vec_write", "meta_write", "ses_write"}
    /\ rag' = RagIdle(rag.drawn)
    /\ UNCHANGED <<ragSession, ragVector, ragMeta>>
    /\ UNCHANGED outsideRag

\* The process is killed inside a service call and started again.  The file
\* being written holds nothing or a part of the bytes.
RagCrash ==
    /\ rag.op # "idle"
    /\ rag' = RagIdle(rag.drawn)
    /\ \E f \in {EmptyFile, Torn} :
         /\ ragVector' = IF rag.pc = "vec_write" THEN f ELSE ragVector
         /\ ragMeta' = IF rag.pc = "meta_write" THEN f ELSE ragMeta
         /\ ragSession' = IF rag.pc = "ses_write" THEN f ELSE ragSession
    /\ UNCHANGED outsideRag

RagNext ==
    \/ RagCreate
    \/ RagUpload
    \/ RagChat
    \/ \E d \in 1..MaxDocs : RagDeleteDocument(d)
    \/ RagVecOpen
    \/ RagVecWrite
    \/ RagMetaOpen
    \/ RagMetaWrite
    \/ RagVecUnlink
    \/ RagMetaUnlink
    \/ RagSesOpen
    \/ RagSesWrite
    \/ RagWriteFail
    \/ RagCrash

SpecRag == Init /\ [][RagNext]_vars

\* ------------------------------------------------------- properties
\* Thread t is executing save_sessions.
InSave(t) == th[t].task \in {"save", "cleanup"} /\ th[t].pc \notin {"-", "join", "done"}

\* The cache a restart builds from the disk as it is now.
FreshCache ==
    LoadAll(LoadSessionIndex(indexFile), 1, files, [heap |-> <<>>, cache |-> <<>>])

\* C1: when save_sessions has written an entity and cleared its flag, the
\* entity is dirty again or equals, flag apart, the record this flush wrote.
C1_FlushKeepsMutations ==
    \A t \in Threads :
        (InSave(t) /\ th[t].pc = "next" /\ th[t].ref # 0 /\ th[t].buf # <<>> /\ ~th[t].failed)
        => \/ heap[th[t].ref].modified
           \/ [JsonLoad(th[t].buf) EXCEPT !.modified = FALSE] = heap[th[t].ref]

\* C2: the canonical session file is absent or a complete document, never
\* empty or partly written.
C2_CanonicalNeverPartial ==
    \A id \in Ids : files[id].st \in {"absent", "complete"}

\* C3: once delete_session has returned for an id, the id is in no cache
\* entry, no index record and no session file, in every later state.
C3_DeletedStaysGone ==
    \A id \in deleted :
        /\ ~CacheHas(chat_sessions, id)
        /\ ~IdxHas(session_index, id)
        /\ ~Exists(files[id])

\* C4: the two threads are never both inside save_sessions.
C4_SingleFlight == ~(InSave("main") /\ InSave("worker"))

\* C5: an entity whose write failed in this save_sessions cycle is still
\* dirty when the cycle moves on.
C5_FailedWriteStaysDirty ==
    \A t \in Threads :
        (InSave(t) /\ th[t].pc = "next" /\ th[t].ref # 0 /\ th[t].failed)
        => heap[th[t].ref].modified

\* C6: a save_individual_session call that could not write or rename the file
\* ends for its caller with an error, not with a normal return.
C6_WriteFailureReported ==
    \A t \in Threads : th[t].failed => th[t].outcome = "raised"

\* C7: with no write in progress (after it ended, failed, or the process was
\* killed), every canonical file is absent or complete.
C7_CanonicalFilesWhole ==
    /\ \A id \in Ids : files[id].st \in {"absent", "complete"}
    /\ indexFile.st \in {"absent", "complete"}
    /\ rag.op = "idle" =>
         \A f \in {ragSession, ragVector, ragMeta} : f.st \in {"absent", "complete"}

\* C8: with the process up and no call in progress, every session file has
\* its record in the session index.
C8_FileHasIndexRecord ==
    (proc = "up" /\ th["main"].task = "idle" /\ th["worker"].task = "sleep")
    => \A id \in Ids : Exists(files[id]) => IdxHas(session_index, id)

\* C9: after a save_sessions call that ran undisturbed (no other writer, no
\* mutation since it began), a restart reads every entity the call flushed
\* back as it is in the cache (caption, created_at, last_accessed, is_new and
\* the turns in order), the dirty flag apart.
C9_RoundTrip ==
    calm.st = "done" =>
        \A id \in calm.written :
            /\ CacheHas(chat_sessions, id)
            /\ CacheHas(FreshCache.cache, id)
            /\ LET e == heap[CacheRef(chat_sessions, id)]
                   r == FreshCache.heap[CacheRef(FreshCache.cache, id)]
               IN  [r EXCEPT !.modified = e.modified] = e

C9_Witness ==
    /\ calm.st = "done"
    /\ \E id \in calm.written :
         /\ CacheHas(chat_sessions, id)
         /\ Len(heap[CacheRef(chat_sessions, id)].messages) >= 2
         /\ heap[CacheRef(chat_sessions, id)].last_accessed > 0

\* C10: from the return of an undisturbed save_sessions call until the next
\* mutation, further save_sessions calls write no session file, and the index
\* file holds the records of the in-memory index.
C10_SecondFlushWritesNothing ==
    calm.st = "done" =>
        /\ \A t \in Threads :
             th[t].pc \notin {"sis_open", "sis_write", "sis_replace", "sis_index", "clear"}
        /\ \A id \in CacheIds(chat_sessions) : ~heap[CacheRef(chat_sessions, id)].modified
        /\ LoadSessionIndex(indexFile) = session_index

C10_Witness ==
    /\ calm.st = "done" /\ calm.written # {}
    /\ \E t \in Threads : InSave(t) /\ th[t].pc = "idx_replace"

\* C11: no session file carries a set dirty flag: an entity loaded from disk
\* is clean.
C11_StoredFlagClear ==
    \A id \in Ids :
        LoadIndividualSession(files, id) # <<>>
        => ~LoadIndividualSession(files, id)[1].modified

\* C12: get_session_lazy on an id with an index record and a session file but
\* no cache entry returns the stored record as a new cache entry; on an id that
\* has a cache entry it returns that entry and leaves cache and heap as they
\* are, whatever the file holds.
C12_LazyLoadThenCached ==
    \A id \in Ids :
        LET g == GetSessionLazy(id)
            stored == LoadIndividualSession(files, id)
        IN  /\ (~CacheHas(chat_sessions, id) /\ IdxHas(session_index, id) /\ stored # <<>>)
               => /\ g.ref # 0
                  /\ g.heap[g.ref] = stored[1]
                  /\ CacheRef(g.cache, id) = g.ref
                  /\ SubSeq(g.heap, 1, Len(heap)) = heap
            /\ CacheHas(chat_sessions, id)
               => /\ g.ref = CacheRef(chat_sessions, id)
                  /\ g.heap = heap
                  /\ g.cache = chat_sessions

C12_Witness ==
    \E id \in deleted :
        /\ CacheHas(chat_sessions, id)
        /\ LoadIndividualSession(files, id) # <<>>
        /\ heap[CacheRef(chat_sessions, id)] # LoadIndividualSession(files, id)[1]

\* C13: whenever the event loop is free to serve a request, get_session_lazy on
\* an id that has no cache entry but a loadable session file returns the stored
\* record and binds the id to it in the cache.
C13_MissReadsStore ==
    \A id \in Ids :
        LET g == GetSessionLazy(id)
            stored == LoadIndividualSession(files, id)
        IN  (MainIdle /\ ~CacheHas(chat_sessions, id) /\ stored # <<>>)
            => /\ g.ref # 0
               /\ g.heap[g.ref] = stored[1]
               /\ CacheRef(g.cache, id) = g.ref

\* C14: get_session_lazy on an id that has neither a cache entry nor a session
\* file returns None and leaves the cache and the objects it refers to as they
\* are; it has no access to the index or to any file.
C14_AbsentGetNoEffect ==
    \A id \in Ids :
        LET g == GetSessionLazy(id)
        IN  (MainIdle /\ ~CacheHas(chat_sessions, id) /\ ~Exists(files[id]))
            => /\ g.ref = 0
               /\ g.heap = heap
               /\ g.cache = chat_sessions

C14_Witness ==
    \E id \in Ids :
        /\ MainIdle
        /\ ~CacheHas(chat_sessions, id)
        /\ ~Exists(files[id])
        /\ IdxHas(session_index, id)

\* C15: every id that has a cache entry has a record in the in-memory session
\* index.
C15_CacheWithinIndex == CacheIds(chat_sessions) \subseteq IdxIds(session_index)

\* The threads that are between open(temp_file, 'w') and temp_file.replace()
\* of save_session_index.
InIndexWrite == {t \in Threads : th[t].pc \in {"idx_close", "idx_replace"}}

CleanupReturned == th["main"].task = "cleanup" /\ th["main"].pc = "done"

\* C17: when cleanup_on_exit has returned, every entity that was dirty when the
\* shutdown signal was given is in its session file as the cache holds it, and
\* the index file is a complete dump.
C17_FinalFlushWritesDirty ==
    CleanupReturned =>
        \A id \in dirtyAtSignal :
            /\ LoadIndividualSession(files, id) # <<>>
            /\ CacheHas(chat_sessions, id) =>
                 [LoadIndividualSession(files, id)[1] EXCEPT !.modified = FALSE]
                    = [heap[CacheRef(chat_sessions, id)] EXCEPT !.modified = FALSE]
            /\ indexFile.st = "complete"

\* ------------------------------------ one chat request, yield by yield
\* POST /chat seen from one session: chat_stream, then generate_response as the
\* transport drives it, one step per resumption of the generator.  Text is a
\* sequence of characters, so that += is concatenation.
MaxGenMsgs == 4
MaxFrags == 2

Fragments == {<<"a">>, <<"b">>}

\* What the model stream delivers: also chunks with empty content.
ModelChunks == Fragments \cup {<<>>}

\* services/chat.py generate_welcome_message, with the "\n\n" the generator adds.
Welcome == <<"w">>

GenActive == gen.pc \in {"created", "meta", "stream"}

ContentEvents == {i \in 1..Len(wire) : wire[i].type = "content"}

\* chat_stream: create_new_session or get_session_lazy, 404 when the session
\* does not exist, the user turn, and the StreamingResponse around a generator
\* that has not run yet.
GenChatStream(new, q, cap) ==
    /\ ~GenActive
    /\ IF ~new /\ session_data = <<>>
       THEN UNCHANGED genVars
       ELSE LET e == IF new THEN NewSession(cap, now) ELSE session_data[1]
            IN  /\ Len(e.messages) + 2 <= MaxGenMsgs
                /\ session_data' = <<AppendUser(e, q)>>
                /\ gen' = [pc |-> "created", full_response |-> <<>>,
                           is_completely_new |-> new]
                /\ wire' = <<>>
                /\ client' = "reading"
                /\ saved' = IF new THEN <<>> ELSE saved
    /\ UNCHANGED outsideGen

\* generate_response: full_response = "", bot_timestamp, the metadata event.
GenMeta ==
    /\ gen.pc = "created"
    /\ wire' = <<[type |-> "metadata", chunk |-> <<>>,
                 is_new_session |-> gen.is_completely_new]>>
    /\ gen' = [gen EXCEPT !.pc = "meta", !.full_response = <<>>]
    /\ UNCHANGED <<session_data, client, saved>>
    /\ UNCHANGED outsideGen

\* get_ollama_streaming_response starts: last_accessed, _modified, and for a
\* session that is still new the welcome text as the first fragment.
GenFirst ==
    /\ gen.pc = "meta"
    /\ session_data' = <<Touch(session_data[1], now)>>
    /\ IF session_data[1].is_new
       THEN /\ gen' = [gen EXCEPT !.pc = "stream", !.full_response = @ \o Welcome]
            /\ wire' = Append(wire, [type |-> "content", chunk |-> Welcome,
                                     is_new_session |-> FALSE])
       ELSE /\ gen' = [gen EXCEPT !.pc = "stream"]
            /\ wire' = wire
    /\ UNCHANGED <<client, saved>>
    /\ UNCHANGED outsideGen

GenChunkAppendsTurn(c) ==
    /\ gen.pc = "stream"
    /\ Cardinality(ContentEvents) < MaxFrags
    /\ Len(session_data[1].messages) < MaxGenMsgs
    /\ c # <<>>
    /\ gen' = [gen EXCEPT !.full_response = @ \o c]
    /\ wire' = Append(wire, [type |-> "content", chunk |-> c, is_new_session |-> FALSE])
    /\ session_data' = <<AppendBot(session_data[1], gen.full_response \o c)>>
    /\ UNCHANGED <<client, saved>>
    /\ UNCHANGED outsideGen

\* One turn of the loops over the model stream: a chunk without content is
\* skipped, any other is added to full_response and sent as a content event.
GenChunk(c) ==
    /\ gen.pc = "stream"
    /\ Cardinality(ContentEvents) < MaxFrags
    /\ IF c = <<>>
       THEN UNCHANGED <<gen, wire>>
       ELSE /\ gen' = [gen EXCEPT !.full_response = @ \o c]
            /\ wire' = Append(wire, [type |-> "content", chunk |-> c,
                                     is_new_session |-> FALSE])
    /\ UNCHANGED <<session_data, client, saved>>
    /\ UNCHANGED outsideGen

\* The model stream is exhausted: the assistant turn, is_new, the direct save
\* for a new session or every tenth turn, the done event.
GenEnd ==
    /\ gen.pc = "stream"
    /\ LET e == AppendBot(session_data[1], gen.full_response)
       IN  /\ session_data' = <<e>>
           /\ saved' = IF DirectSave(gen.is_completely_new, e)
                       THEN <<JsonDump(e)>> ELSE saved
    /\ wire' = Append(wire, [type |-> "done", chunk |-> gen.full_response,
                             is_new_session |-> FALSE])
    /\ gen' = [gen EXCEPT !.pc = "done"]
    /\ UNCHANGED client
    /\ UNCHANGED outsideGen

\* ollama.chat or its stream raises: the HTTPException leaves the generator.
GenRaise ==
    /\ gen.pc \in {"meta", "stream"}
    /\ gen' = [gen EXCEPT !.pc = "raised"]
    /\ UNCHANGED <<session_data, wire, client, saved>>
    /\ UNCHANGED outsideGen

\* The client stops reading.
GenDisconnect ==
    /\ GenActive
    /\ client = "reading"
    /\ client' = "gone"
    /\ UNCHANGED <<session_data, gen, wire, saved>>
    /\ UNCHANGED outsideGen

\* The server gives up a response nobody reads: the generator is closed where
\* it is suspended (a yield, or the sleep after one); generate_response has no
\* try or finally, so none of its remaining statements runs.
GenClose ==
    /\ GenActive
    /\ client = "gone"
    /\ gen' = [gen EXCEPT !.pc = "closed"]
    /\ UNCHANGED <<session_data, wire, client, saved>>
    /\ UNCHANGED outsideGen

\* The steps the event loop takes for a response it is sending.
GenStep ==
    \/ GenMeta
    \/ GenFirst
    \/ \E c \in ModelChunks : GenChunk(c)
    \/ GenEnd

GenNext ==
    \/ \E new \in BOOLEAN, q \in Queries, cap \in Captions : GenChatStream(new, q, cap)
    \/ GenMeta
    \/ GenFirst
    \/ \E c \in ModelChunks : GenChunk(c)
    \/ GenEnd
    \/ GenRaise
    \/ GenDisconnect
    \/ GenClose

SpecGen == Init /\ [][GenNext]_vars

\* The event loop keeps driving a generator it has: a step of it that stays
\* possible is taken.
SpecGenLive == SpecGen /\ WF_vars(GenStep \/ GenClose)

\* The messages of the session of the request, none when there is no session.
Msgs(sd) == IF sd = <<>> THEN <<>> ELSE sd[1].messages

RECURSIVE WireText(_)
\* The text a client that read the events w has received: the chunks of the
\* content events, in the order of the events.
WireText(w) ==
    IF w = <<>> THEN <<>>
    ELSE IF w[1].type = "content" THEN w[1].chunk \o WireText(Tail(w))
         ELSE WireText(Tail(w))

\* C18: the messages of the session change only when chat_stream appends the
\* user turn and when the generator completes; the step that completes the
\* generator appends exactly one assistant turn, whose content is the
\* concatenation, in order, of the fragments sent before it.
C18_ReplyAppendedOnce ==
    [][/\ Msgs(session_data') # Msgs(session_data)
          => \/ gen'.pc = "created"
             \/ gen.pc = "stream" /\ gen'.pc = "done"
       /\ (gen.pc # "done" /\ gen'.pc = "done")
          => /\ gen.pc = "stream"
             /\ Msgs(session_data') =
                  Append(Msgs(session_data),
                         [role |-> "assistant", content |-> WireText(wire)])
             /\ wire' = Append(wire, [type |-> "done", chunk |-> WireText(wire),
                                      is_new_session |-> FALSE])]_vars

C18_Witness ==
    /\ gen.pc = "done"
    /\ Cardinality(ContentEvents) = MaxFrags
    /\ \E i, j \in ContentEvents : wire[i].chunk # wire[j].chunk
    /\ Msgs(session_data)[Len(Msgs(session_data))] =
         [role |-> "assistant", content |-> WireText(wire)]
    /\ Len(WireText(wire)) >= MaxFrags

\* C19: once the client has stopped reading a response whose generator is still
\* alive, the assistant turn of that request is eventually appended (the
\* generator reaches its end), unless the model call itself fails.
C19_ReplyRecordedDespiteDisconnect ==
    (client = "gone" /\ GenActive) ~> (gen.pc \in {"done", "raised"})

\* ------------------------------------------- code notes: index and map
MaxNotes == 3

DictPut(m, k, v) == [p \in DOMAIN m \cup {k} |-> IF p = k THEN v ELSE m[p]]

\* {k: v for k, v in m.items() if v != sid}
DictWithout(m, sid) == [p \in {q \in DOMAIN m : m[q] # sid} |-> m[p]]

\* The dict the name session_ids_map of services/code_notes.py refers to.
ServicesMap(core, svc) == IF svc.own THEN svc.dict ELSE core

\* main.py startup_event: initialize_faiss() makes an empty index, the modules
\* were imported with an empty map, load_session_data() reads the session
\* folders and, when global_mapping.pkl exists, binds the services module's
\* session_ids_map to the loaded dict.
NotesStartup ==
    /\ ~notesUp
    /\ notesUp' = TRUE
    /\ faiss_index' = <<>>
    /\ core_map' = EmptyDict
    /\ services_map' = IF globalMapping.st = "complete"
                       THEN [own |-> TRUE, dict |-> globalMapping.data]
                       ELSE SameAsCore
    /\ sessions_data' = sessionFolders
    /\ UNCHANGED <<notesDrawn, sessionFolders, globalMapping>>
    /\ UNCHANGED outsideNotes

\* create_new_code_service: the session dict, add_to_faiss_index (the vector
\* goes to position ntotal, the map gets that position), save_session_data.
CreateNewCode ==
    /\ notesUp
    /\ notesDrawn < MaxNotes
    /\ LET sid == notesDrawn + 1
           current_index == Len(faiss_index)
       IN  /\ notesDrawn' = sid
           /\ sessions_data' = sessions_data \cup {sid}
           /\ faiss_index' = Append(faiss_index, sid)
           /\ core_map' = DictPut(core_map, current_index, sid)
           /\ services_map' = services_map
           /\ sessionFolders' = sessionFolders \cup sessions_data'
           /\ globalMapping' = Complete(ServicesMap(core_map', services_map'))
    /\ UNCHANGED notesUp
    /\ UNCHANGED outsideNotes

\* delete_session_service: the session leaves sessions_data, the services
\* module's session_ids_map becomes a filtered copy, the folder is removed,
\* save_session_data.  The index is not touched.
NotesDeleteSession(sid) ==
    /\ notesUp
    /\ sid \in sessions_data
    /\ sessions_data' = sessions_data \ {sid}
    /\ services_map' = [own |-> TRUE,
                        dict |-> DictWithout(ServicesMap(core_map, services_map), sid)]
    /\ sessionFolders' = (sessionFolders \ {sid}) \cup sessions_data'
    /\ globalMapping' = Complete(services_map'.dict)
    /\ UNCHANGED <<notesUp, notesDrawn, faiss_index, core_map>>
    /\ UNCHANGED outsideNotes

\* main.py shutdown_event: save_session_data(), then the process ends.
NotesShutdown ==
    /\ notesUp
    /\ notesUp' = FALSE
    /\ sessionFolders' = sessionFolders \cup sessions_data
    /\ globalMapping' = Complete(ServicesMap(core_map, services_map))
    /\ UNCHANGED <<notesDrawn, faiss_index, core_map, services_map, sessions_data>>
    /\ UNCHANGED outsideNotes

\* The vector indexes of both scopes, with no write failure and no crash.
VecNext ==
    \/ NotesStartup
    \/ CreateNewCode
    \/ \E sid \in 1..MaxNotes : NotesDeleteSession(sid)
    \/ NotesShutdown
    \/ RagCreate
    \/ RagUpload
    \/ \E d \in 1..MaxDocs : RagDeleteDocument(d)
    \/ RagVecOpen
    \/ RagVecWrite
    \/ RagMetaOpen
    \/ RagMetaWrite
    \/ RagVecUnlink
    \/ RagMetaUnlink
    \/ RagSesOpen
    \/ RagSesWrite

SpecVec == Init /\ [][VecNext]_vars

\* The vectors and the metadata records of a RAG scope correspond position by
\* position: in the service call in progress and in the stored pair when no
\* call is in progress.
RagAligned ==
    /\ Len(rag.index) = Len(rag.metadata)
    /\ \A i \in 1..Len(rag.index) : rag.index[i] = rag.metadata[i].document_id
    /\ (rag.op = "idle" /\ LoadVectorStore.ok /\ ~LoadVectorStore.none)
       => /\ Len(LoadVectorStore.index) = Len(LoadVectorStore.metadata)
          /\ \A i \in 1..Len(LoadVectorStore.index) :
                LoadVectorStore.index[i] = LoadVectorStore.metadata[i].document_id

\* Every position of the code-notes index has an entry in session_ids_map, under
\* either name of the map.
NotesAligned ==
    \A p \in 0..(Len(faiss_index) - 1) :
        /\ p \in DOMAIN core_map
        /\ p \in DOMAIN ServicesMap(core_map, services_map)

\* C20: in a RAG scope the vectors and the metadata records correspond position
\* by position after any uploads and deletions, and in the code-notes scope
\* every index position has an entry in the position-to-session map.
C20_VectorsAlignedWithMetadata == RagAligned /\ NotesAligned

\* ------------------------------------------------- similarity search
\* core/rag_config.py DEFAULT_K_SIMILAR, and the default k of search_similar_code.
DEFAULT_K_SIMILAR == 3

Min(a, b) == IF a <= b THEN a ELSE b

\* What a query can find nearest in an index of n vectors: the positions
\* (counted from 0) of its min(n, DEFAULT_K_SIMILAR) nearest vectors, nearest
\* first.
Rankings(n) ==
    {r \in [1..Min(n, DEFAULT_K_SIMILAR) -> 0..(n - 1)] :
        \A i, j \in 1..Min(n, DEFAULT_K_SIMILAR) : r[i] = r[j] => i = j}

\* faiss index.search(query, k): the k nearest positions; when the index holds
\* fewer than k vectors the remaining labels are -1.
FaissSearch(ranking, k) ==
    [i \in 1..k |-> IF i <= Len(ranking) THEN ranking[i] ELSE -1]

\* A Python list subscript: a negative idx counts from the end.
PyItem(list, idx) == IF idx >= 0 THEN list[idx + 1] ELSE list[Len(list) + idx + 1]

RECURSIVE RelatedChunks(_, _)
\* chat_service: for idx in indices[0]: if idx < len(metadata): append
\* metadata[idx]['content'] (the record stands for its content).
RelatedChunks(indices, metadata) ==
    IF indices = <<>> THEN <<>>
    ELSE IF indices[1] < Len(metadata)
         THEN <<PyItem(metadata, indices[1])>> \o RelatedChunks(Tail(indices), metadata)
         ELSE RelatedChunks(Tail(indices), metadata)

RECURSIVE SimilarSessions(_, _)
\* search_similar_code: for idx in indices[0]: if idx in session_ids_map: append
SimilarSessions(indices, map) ==
    IF indices = <<>> THEN <<>>
    ELSE IF indices[1] \in DOMAIN map
         THEN <<map[indices[1]]>> \o SimilarSessions(Tail(indices), map)
         ELSE SimilarSessions(Tail(indices), map)

\* chat_service with its search: the stored index is searched for the
\* DEFAULT_K_SIMILAR nearest chunks, the turn is added to the history with the
\* related chunks, then save_session_data.
RagChatSearch(ranking) ==
    /\ rag.op = "idle"
    /\ LoadSessionData # <<>> /\ LoadVectorStore.ok /\ ~LoadVectorStore.none
    /\ LoadSessionData[1].turns < MaxTurns
    /\ ranking \in Rankings(Len(LoadVectorStore.index))
    /\ search' = [scope |-> "rag", records |-> LoadVectorStore.metadata,
                  k |-> DEFAULT_K_SIMILAR, ranking |-> ranking,
                  result |-> RelatedChunks(FaissSearch(ranking, DEFAULT_K_SIMILAR),
                                           LoadVectorStore.metadata)]
    /\ rag' = [rag EXCEPT !.op = "chat", !.pc = "ses_open",
                          !.data = [LoadSessionData[1] EXCEPT !.turns = @ + 1]]
    /\ UNCHANGED <<ragSession, ragVector, ragMeta>>
    /\ UNCHANGED <<chatVars, genVars, notesVars, chunkVars, replyVars, workerVars, versionVars, promptVars>>

\* search_similar_code(query): nothing on an empty index, else the
\* min(k, ntotal) nearest positions and the session ids the map has for them.
SearchSimilarCode(ranking) ==
    /\ notesUp
    /\ ranking \in Rankings(Len(faiss_index))
    /\ search' = [scope |-> "notes", records |-> faiss_index,
                  k |-> DEFAULT_K_SIMILAR, ranking |-> ranking,
                  result |->
                    IF Len(faiss_index) = 0 THEN <<>>
                    ELSE SimilarSessions(
                           FaissSearch(ranking, Min(DEFAULT_K_SIMILAR, Len(faiss_index))),
                           core_map)]
    /\ UNCHANGED notesVars
    /\ UNCHANGED <<chatVars, ragVars, genVars, chunkVars, replyVars, workerVars, versionVars, promptVars>>

\* Both vector scopes with their searches, with no write failure and no crash.
SearchNext ==
    \/ VecNext
    \/ \E r \in Rankings(Len(ragVector.data)) : RagChatSearch(r)
    \/ \E r \in Rankings(Len(faiss_index)) : SearchSimilarCode(r)

SpecSearch == Init /\ [][SearchNext]_vars

\* C21: a search over an index of `size` vectors for k neighbours returns
\* exactly min(k, size) results, the i-th of them the record at the i-th nearest
\* position, no record twice; on an empty index the result is empty.
C21_SearchResultSize ==
    search.scope # "none" =>
        /\ Len(search.result) = Min(search.k, Len(search.records))
        /\ \A i \in 1..Len(search.result) :
              /\ i <= Len(search.ranking)
              /\ search.result[i] = search.records[search.ranking[i] + 1]
        /\ \A i, j \in 1..Len(search.result) :
              search.result[i] = search.result[j] => i = j

\* ------------------------------------------- RAG: chunks of a document
\* core/rag_config.py
DEFAULT_CHUNK_SIZE == 500
DEFAULT_OVERLAP == 50

\* The lengths of the texts that are uploaded (0: no text could be extracted).
TextLengths == {0, 300, 500, 1200}

RECURSIVE ChunkFromNoOverlap(_, _, _, _)
ChunkFromNoOverlap(start, n, chunk_size, overlap) ==
    IF start < n
    THEN <<<<start, Min(start + chunk_size, n)>>>>
         \o ChunkFromNoOverlap(start + chunk_size, n, chunk_size, overlap)
    ELSE <<>>

RECURSIVE ChunkFrom(_, _, _, _)
\* The while loop of chunk_text from position start on.  A text is given by its
\* length n and has no blank character, so that strip() changes nothing and a
\* chunk is the slice <<from, to>> it was cut from.
ChunkFrom(start, n, chunk_size, overlap) ==
    IF start < n
    THEN <<<<start, Min(start + chunk_size, n)>>>>
            \o ChunkFrom(start + chunk_size - overlap, n, chunk_size, overlap)
    ELSE <<>>

\* chunk_text(text, chunk_size, overlap)
ChunkText(n, chunk_size, overlap) ==
    IF n = 0 THEN <<>> ELSE ChunkFrom(0, n, chunk_size, overlap)

\* upload_documents_service with one file of n characters: a file without text
\* is reported in errors and nothing is saved; otherwise one vector and one
\* metadata record per chunk, the entry in session_data['documents'], and the
\* two saves, which follow as steps.
RagUploadText(n) ==
    /\ rag.op = "idle" /\ rag.drawn < MaxDocs
    /\ LoadSessionData # <<>> /\ LoadVectorStore.ok
    /\ LET d == rag.drawn + 1
           v == LoadVectorStore
           chunks == ChunkText(n, DEFAULT_CHUNK_SIZE, DEFAULT_OVERLAP)
       IN  IF chunks = <<>>
           THEN rag' = rag
           ELSE rag' = [op |-> "upload", pc |-> "vec_open", drawn |-> d,
                        data |-> [LoadSessionData[1] EXCEPT !.documents = @ \cup {d},
                                                           !.chunk_count[d] = Len(chunks)],
                        index |-> v.index \o [i \in 1..Len(chunks) |-> d],
                        metadata |-> v.metadata \o
                           [i \in 1..Len(chunks) |->
                              [document_id |-> d, chunk_index |-> i - 1,
                               content |-> chunks[i]]]]
    /\ UNCHANGED <<ragSession, ragVector, ragMeta>>
    /\ UNCHANGED outsideRag

\* One RAG scope with documents of several chunks, deletions and chat searches,
\* with no write failure and no crash.
DocsNext ==
    \/ RagCreate
    \/ \E n \in TextLengths : RagUploadText(n)
    \/ \E d \in 1..MaxDocs : RagDeleteDocument(d)
    \/ \E r \in Rankings(Len(ragVector.data)) : RagChatSearch(r)
    \/ RagVecOpen
    \/ RagVecWrite
    \/ RagMetaOpen
    \/ RagMetaWrite
    \/ RagVecUnlink
    \/ RagMetaUnlink
    \/ RagSesOpen
    \/ RagSesWrite

SpecDocs == Init /\ [][DocsNext]_vars

\* C22: delete_document_service on document A rebuilds the store with exactly
\* the records of the other documents, in their order, and as many vectors;
\* when it returns the store on disk is that rebuilt pair, or is gone when no
\* record remained; a chat search returns only chunks of documents the session
\* still has.
C22_RebuildWithoutDocument ==
    [][/\ (rag.op = "idle" /\ rag'.op = "delete_document")
          => LET old == LoadVectorStore.metadata
                 gone == LoadSessionData[1].documents \ rag'.data.documents
                 kept == {i \in 1..Len(old) : old[i].document_id \notin gone}
             IN  /\ Cardinality(gone) = 1
                 /\ Len(rag'.metadata) = Cardinality(kept)
                 /\ Len(rag'.index) = Cardinality(kept)
                 /\ \A i \in kept :
                       rag'.metadata[Cardinality({j \in kept : j <= i})] = old[i]
                 /\ \A i \in 1..Len(rag'.index) :
                       rag'.index[i] = rag'.metadata[i].document_id
       /\ (rag.op = "delete_document" /\ rag'.op = "idle")
          => IF rag.metadata = <<>>
             THEN ~Exists(ragVector') /\ ~Exists(ragMeta')
             ELSE ragVector' = Complete(rag.index) /\ ragMeta' = Complete(rag.metadata)
       /\ (search' # search /\ search'.scope = "rag")
          => \A i \in 1..Len(search'.result) :
                search'.result[i].document_id \in LoadSessionData[1].documents]_vars

C22_Witness ==
    /\ rag.op = "delete_document" /\ rag.pc = "vec_open"
    /\ Len(rag.metadata) >= 2
    /\ LoadVectorStore.ok
    /\ Len(LoadVectorStore.metadata) > Len(rag.metadata)
    /\ LoadVectorStore.metadata[1].document_id \notin rag.data.documents
    /\ rag.metadata[1] = LoadVectorStore.metadata[Len(LoadVectorStore.metadata)
                                                   - Len(rag.metadata) + 1]

\* The window of chunk j (from 0) of a text of n characters: the characters
\* from j*(s-o) up to j*(s-o)+s, or up to the end of the text.
Window(j, n, s, o) == <<j * (s - o), Min(j * (s - o) + s, n)>>

\* The windows that start inside a text of n characters, for consecutive j.
Windows(n, s, o) ==
    LET count == Cardinality({j \in 0..n : j * (s - o) < n})
    IN  [i \in 1..count |-> Window(i - 1, n, s, o)]

SmallText == 6

\* C25: chunk_text returns the windows text[j*(s-o) : j*(s-o)+s] for
\* consecutive j from 0 (three windows for 1200 characters, size 500, overlap
\* 50); an upload adds one vector and one record per chunk of the document,
\* after the records already stored; a chat query returns at most
\* DEFAULT_K_SIMILAR related chunks, all of documents of the session.
C25_ChunkWindows ==
    [][/\ \A n \in 0..SmallText, s \in 1..SmallText :
             \A o \in 0..(s - 1) : ChunkText(n, s, o) = Windows(n, s, o)
       /\ ChunkText(1200, 500, 50) = <<<<0, 500>>, <<450, 950>>, <<900, 1200>>>>
       /\ (rag.op = "idle" /\ rag'.op = "upload")
          => LET old == LoadVectorStore
                 grown == Len(rag'.metadata) - Len(old.metadata)
             IN  /\ grown > 0
                 /\ Len(rag'.index) = Len(old.index) + grown
                 /\ SubSeq(rag'.metadata, 1, Len(old.metadata)) = old.metadata
                 /\ SubSeq(rag'.index, 1, Len(old.index)) = old.index
                 /\ \E n \in TextLengths :
                       /\ grown = Len(Windows(n, DEFAULT_CHUNK_SIZE, DEFAULT_OVERLAP))
                       /\ \A j \in 0..(grown - 1) :
                             LET m == rag'.metadata[Len(old.metadata) + j + 1]
                             IN  /\ m.document_id = rag'.drawn
                                 /\ m.chunk_index = j
                                 /\ m.content = Window(j, n, DEFAULT_CHUNK_SIZE, DEFAULT_OVERLAP)
                                 /\ rag'.index[Len(old.index) + j + 1] = rag'.drawn
       /\ (search' # search /\ search'.scope = "rag")
          => /\ Len(search'.result) <= DEFAULT_K_SIMILAR
             /\ \A i \in 1..Len(search'.result) :
                   search'.result[i].document_id \in LoadSessionData[1].documents]_vars

C25_Witness ==
    /\ search.scope = "rag" /\ Len(search.result) = DEFAULT_K_SIMILAR
    /\ rag.op = "chat"
    /\ Len(LoadVectorStore.metadata) = 3
    /\ \A j \in 0..2 :
          LoadVectorStore.metadata[j + 1].content
             = <<<<0, 500>>, <<450, 950>>, <<900, 1200>>>>[j + 1]

\* C23: when delete_session_service(id) returns, the session is in neither
\* sessions_data nor the session folders, and from then on search_similar_code
\* returns only ids of sessions that exist.
C23_DeletedSessionNotFound ==
    [][/\ \A sid \in sessions_data \ sessions_data' :
             sid \notin sessionFolders'
       /\ (search' # search /\ search'.scope = "notes")
          => \A i \in 1..Len(search'.result) :
                search'.result[i] \in sessions_data']_vars

\* C24: a vector index saved with its metadata and loaded again has the same
\* size and the same record at every position: the RAG store read back after
\* save_vector_store is the pair that was saved, and the code-notes index and
\* its position-to-session map after a restart are those of before it.
C24_VectorIndexRoundTrip ==
    [][/\ (rag.op \in {"upload", "delete_document"} /\ rag'.op = "idle"
             /\ rag.metadata # <<>>)
          => /\ LoadVectorStore'.ok /\ ~LoadVectorStore'.none
             /\ LoadVectorStore'.index = rag.index
             /\ LoadVectorStore'.metadata = rag.metadata
       /\ (~notesUp /\ notesUp')
          => /\ Len(faiss_index') = Len(faiss_index)
             /\ \A p \in 0..(Len(faiss_index) - 1) :
                   /\ faiss_index'[p + 1] = faiss_index[p + 1]
                   /\ p \in DOMAIN core_map => /\ p \in DOMAIN core_map'
                                               /\ core_map'[p] = core_map[p]]_vars

MaxText == 4
MaxSize == 3
MaxIters == MaxText + 2

Chars == {"x", " "}
Texts == UNION {[1..n -> Chars] : n \in 0..MaxText}

\* str.strip() for blanks.
RECURSIVE LStrip(_)
LStrip(t) == IF t # <<>> /\ Head(t) = " " THEN LStrip(Tail(t)) ELSE t
RECURSIVE RStrip(_)
RStrip(t) == IF t # <<>> /\ t[Len(t)] = " " THEN RStrip(SubSeq(t, 1, Len(t) - 1)) ELSE t
Strip(t) == RStrip(LStrip(t))

\* The bounds of the slice t[a:b] of a sequence of n items: a negative bound
\* counts from the end, and both are cut to 0..n.
PyBound(i, n) == IF i < 0 THEN (IF i + n < 0 THEN 0 ELSE i + n) ELSE Min(i, n)
PySlice(t, a, b) ==
    LET lo == PyBound(a, Len(t))
        hi == PyBound(b, Len(t))
    IN  IF lo < hi THEN SubSeq(t, lo + 1, hi) ELSE <<>>

\* chunk_text(text, chunk_size, overlap) up to the loop: strip, return [] for an
\* empty text.
ChunkTextCall(t, s, o) ==
    /\ chunker.pc = "idle"
    /\ chunker' = [pc |-> IF Strip(t) = <<>> THEN "done" ELSE "loop",
                   text |-> Strip(t), chunk_size |-> s, overlap |-> o, start |-> 0,
                   chunks |-> <<>>, windows |-> <<>>, iters |-> 0]
    /\ UNCHANGED <<chatVars, ragVars, genVars, notesVars, searchVars, replyVars, workerVars, versionVars, promptVars>>

ChunkTextIterKeepsStart ==
    /\ chunker.pc = "loop"
    /\ chunker.iters < MaxIters
    /\ LET end == chunker.start + chunker.chunk_size
           chunk == PySlice(chunker.text, chunker.start, end)
       IN  chunker' = [chunker EXCEPT
                         !.chunks = IF Strip(chunk) # <<>> THEN Append(@, Strip(chunk)) ELSE @,
                         !.windows = Append(@, <<PyBound(chunker.start, Len(chunker.text)),
                                                 PyBound(end, Len(chunker.text))>>),
                         !.iters = @ + 1]
    /\ UNCHANGED <<chatVars, ragVars, genVars, notesVars, searchVars, replyVars, workerVars, versionVars, promptVars>>

\* One pass of `while start < len(text)`: the slice, the append of a chunk that
\* is not blank, the new start, the break.
ChunkTextIter ==
    /\ chunker.pc = "loop"
    /\ chunker.iters < MaxIters
    /\ LET end == chunker.start + chunker.chunk_size
           chunk == PySlice(chunker.text, chunker.start, end)
           start == end - chunker.overlap
       IN  chunker' = [chunker EXCEPT
                         !.chunks = IF Strip(chunk) # <<>> THEN Append(@, Strip(chunk)) ELSE @,
                         !.windows = Append(@, <<PyBound(chunker.start, Len(chunker.text)),
                                                 PyBound(end, Len(chunker.text))>>),
                         !.start = start,
                         !.iters = @ + 1,
                         !.pc = IF start >= Len(chunker.text) THEN "done" ELSE "loop"]
    /\ UNCHANGED <<chatVars, ragVars, genVars, notesVars, searchVars, replyVars, workerVars, versionVars, promptVars>>

\* return chunks
ChunkTextReturn ==
    /\ chunker.pc = "done"
    /\ chunker' = NoChunker
    /\ UNCHANGED <<chatVars, ragVars, genVars, notesVars, searchVars, replyVars, workerVars, versionVars, promptVars>>

ChunkNext ==
    \/ \E t \in Texts, s \in 1..MaxSize, o \in 0..MaxSize : ChunkTextCall(t, s, o)
    \/ ChunkTextIter
    \/ ChunkTextReturn

SpecChunk == Init /\ [][ChunkNext]_vars

\* The interpreter keeps running the loop of a call in progress.
SpecChunkLive == SpecChunk /\ WF_vars(ChunkTextIter)

\* C26: with 0 <= overlap < chunk_size a call of chunk_text reaches its return,
\* and then every position of the stripped text lies in a window it sliced
\* (each window with a non-blank character was returned, stripped); an empty or
\* blank text returns []; with overlap >= chunk_size and a non-empty text no
\* pass moves the start forward and the return is never reached.
C26_ChunkingTerminates ==
    /\ [](chunker.pc = "done"
           => /\ chunker.text # <<>> => chunker.overlap < chunker.chunk_size
              /\ chunker.text = <<>> => chunker.chunks = <<>>
              /\ \A p \in 0..(Len(chunker.text) - 1) :
                    \E i \in 1..Len(chunker.windows) :
                       /\ chunker.windows[i][1] <= p /\ p < chunker.windows[i][2]
                       /\ chunker.text[p + 1] # " "
                          => \E c \in 1..Len(chunker.chunks) :
                                chunker.chunks[c] =
                                   Strip(SubSeq(chunker.text, chunker.windows[i][1] + 1,
                                                chunker.windows[i][2]))
              /\ (\A p \in 1..Len(chunker.text) : chunker.text[p] # " ")
                 => chunker.windows = ChunkText(Len(chunker.text), chunker.chunk_size,
                                                chunker.overlap))
    /\ [][(chunker.pc = "loop" /\ chunker.overlap >= chunker.chunk_size)
            => (chunker'.pc = "loop" /\ chunker'.start <= chunker.start)]_vars
    /\ ((chunker.pc = "loop" /\ chunker.overlap < chunker.chunk_size)
          ~> chunker.pc = "done")

C26_Witness ==
    /\ chunker.pc = "done"
    /\ Len(chunker.text) = MaxText
    /\ chunker.overlap = 1 /\ chunker.chunk_size = 2
    /\ Len(chunker.windows) >= 3
    /\ \E p \in 1..Len(chunker.text) : chunker.text[p] = " "

\* C27: a request addressed to a session id that is in neither the cache, the
\* index nor the session files is answered with not-found: no handler goes on
\* to act on that id: delete_session does not proceed to its unlink and index
\* save, which end in the success message.
C27_NotFoundReported ==
    [][\A id \in Ids :
          (/\ MainIdle
           /\ ~CacheHas(chat_sessions, id)
           /\ ~IdxHas(session_index, id)
           /\ ~Exists(files[id]))
          => ~(th'["main"].task = "delete" /\ th'["main"].sid = id)]_vars

\* C28: a chat turn whose model call raised still ends with the user turn
\* followed by an assistant turn (the apologetic answer); the failure does not
\* end the response as an error.
C28_ModelFailureDegrades ==
    gen.pc = "raised"
       => /\ Len(Msgs(session_data)) >= 2
          /\ Msgs(session_data)[Len(Msgs(session_data))].role = "assistant"
          /\ Msgs(session_data)[Len(Msgs(session_data)) - 1].role = "user"

MaxWords == 5
CaptionMax == 50

\* A word of a query: its length and whether it is one of the stop words of
\* generate_fallback_caption (all of which have at most 7 letters).
WordKinds == {[len |-> 2, stop |-> FALSE], [len |-> 4, stop |-> TRUE],
              [len |-> 20, stop |-> FALSE]}
CaptionQueries == UNION {[1..n -> WordKinds] : n \in 0..MaxWords}

\* What ollama.chat gives generate_caption: an exception, or a text, taken
\* after the strips, the re.sub and the split: its length and the number of
\* blanks that end its first 47 characters.
CaptionAnswers ==
    {[kind |-> "raise", len |-> 0, blanks |-> 0]}
       \cup {[kind |-> "text", len |-> l, blanks |-> b] : l \in {0, 10, 50, 51}, b \in 0..1}

Variants == {"chat", "code_notes", "rag"}

Take(s, k) == SubSeq(s, 1, Min(k, Len(s)))

\* len(' '.join(words))
RECURSIVE JoinLen(_)
JoinLen(ws) ==
    IF ws = <<>> THEN 0
    ELSE IF Len(ws) = 1 THEN ws[1].len
    ELSE ws[1].len + 1 + JoinLen(Tail(ws))

\* The length of generate_fallback_caption(query): in services/chat.py and
\* services/code_notes.py up to four words that are no stop words and longer
\* than 2, else the first three words, replaced by "Chat mm-dd HH:MM" when
\* shorter than 6; in services/rag.py the first four words.
FallbackCaption(variant, q) ==
    IF variant = "rag"
    THEN JoinLen(Take(q, 4))
    ELSE LET filtered_words == SelectSeq(q, LAMBDA w : ~w.stop /\ w.len > 2)
             key_words == IF filtered_words # <<>> THEN Take(filtered_words, 4)
                          ELSE Take(q, 3)
         IN  IF JoinLen(key_words) < 6 THEN 16 ELSE JoinLen(key_words)

\* The length of generate_caption(query): the answer cut to 47 characters,
\* right-stripped, plus "..." when it is longer than 50; the fallback for an
\* empty answer or an exception.
GenerateCaptionLen(variant, q, a) ==
    IF a.kind = "raise"
    THEN FallbackCaption(variant, q)
    ELSE LET caption == IF a.len > CaptionMax THEN 47 - a.blanks + 3 ELSE a.len
         IN  IF caption > 0 THEN caption ELSE FallbackCaption(variant, q)

\* One call of generate_caption.
GenerateCaption(variant, q, a) ==
    /\ capt = NoCaption
    /\ capt' = [variant |-> variant, query |-> q, answer |-> a.kind,
                len |-> GenerateCaptionLen(variant, q, a)]
    /\ UNCHANGED <<chatVars, ragVars, genVars, notesVars, searchVars, chunkVars, status, ctx, workerVars, versionVars, promptVars>>

\* The caller has stored the caption; the next call can be looked at.
CaptionReturn ==
    /\ capt # NoCaption
    /\ capt' = NoCaption
    /\ UNCHANGED <<chatVars, ragVars, genVars, notesVars, searchVars, chunkVars, status, ctx, workerVars, versionVars, promptVars>>

CaptionNext ==
    \/ \E variant \in Variants, q \in CaptionQueries, a \in CaptionAnswers :
          GenerateCaption(variant, q, a)
    \/ CaptionReturn

SpecCaption == Init /\ [][CaptionNext]_vars

\* C29: every caption generate_caption returns, from the model's answer or from
\* the fallback, in each of the three services, is non-empty and has at most
\* 50 characters.
C29_CaptionBound ==
    capt.variant # "none" => (capt.len >= 1 /\ capt.len <= CaptionMax)

CurrentQuestionsCountsAll(messages) == Len(messages)

\* sum(1 for msg in session_data["messages"] if msg["role"] == "user")
RECURSIVE CurrentQuestions(_)
CurrentQuestions(messages) ==
    IF messages = <<>> THEN 0
    ELSE (IF messages[1].role = "user" THEN 1 ELSE 0) + CurrentQuestions(Tail(messages))

\* GET /session/{id}/status: 404 when get_session_lazy finds nothing, else the
\* counts over the messages of the session.
GetSessionStatus ==
    /\ status' = IF session_data = <<>>
                 THEN [code |-> 404, current_questions |-> 0, total_messages |-> 0]
                 ELSE [code |-> 200,
                       current_questions |-> CurrentQuestions(session_data[1].messages),
                       total_messages |-> Len(session_data[1].messages)]
    /\ UNCHANGED <<chatVars, ragVars, genVars, notesVars, searchVars, chunkVars, capt, ctx, workerVars, versionVars, promptVars>>

\* Chat requests with status requests between any two steps of a response.
StatusNext ==
    \/ GenNext
    \/ GetSessionStatus

SpecStatus == Init /\ [][StatusNext]_vars

\* C30: get_session_status reports as current_questions the number of turns
\* with role user and as total_messages the number of turns of the session;
\* for a session just created whose first response is complete these are 1
\* and 2.
C30_StatusCounts ==
    [][status' # status
         => IF session_data = <<>>
            THEN status'.code = 404
            ELSE /\ status'.code = 200
                 /\ status'.current_questions =
                      Cardinality({i \in 1..Len(Msgs(session_data)) :
                                      Msgs(session_data)[i].role = "user"})
                 /\ status'.total_messages = Len(Msgs(session_data))
                 /\ (gen.pc = "done" /\ gen.is_completely_new)
                    => /\ status'.current_questions = 1
                       /\ status'.total_messages = 2]_vars

C30_Witness ==
    /\ gen.pc = "done" /\ gen.is_completely_new
    /\ status = [code |-> 200, current_questions |-> 1, total_messages |-> 2]
    /\ Len(Msgs(session_data)) = 2

IsPrefix(s, t) == Len(s) <= Len(t) /\ SubSeq(t, 1, Len(s)) = s

\* The turns a reader of entity id is given, in a sequence of one item, or <<>>
\* when there is no such entity: those of the cached dict, else those
\* get_session_lazy would load, and while the process is down those the next
\* startup would load.
TurnsOf(id) ==
    IF CacheHas(chat_sessions, id)
    THEN <<heap[CacheRef(chat_sessions, id)].messages>>
    ELSE IF proc = "down"
         THEN IF CacheHas(FreshCache.cache, id)
              THEN <<FreshCache.heap[CacheRef(FreshCache.cache, id)].messages>>
              ELSE <<>>
         ELSE IF IdxHas(session_index, id) /\ LoadIndividualSession(files, id) # <<>>
              THEN <<LoadIndividualSession(files, id)[1].messages>>
              ELSE <<>>

\* C31: the turns of an entity observed after a step (a chat turn, a read, a
\* step of a flush, a shutdown and the reload that follows) begin with the
\* turns observed before it, as long as the entity is there.
C31_TurnsAppendOnly ==
    [][\A id \in Ids :
          (TurnsOf(id) # <<>> /\ TurnsOf(id)' # <<>>)
          => IsPrefix(TurnsOf(id)[1], TurnsOf(id)'[1])]_vars

\* The dict a reader of entity id is given, in a sequence of one item, or <<>>
\* when there is no such entity (as TurnsOf).
EntityOf(id) ==
    IF CacheHas(chat_sessions, id)
    THEN <<heap[CacheRef(chat_sessions, id)]>>
    ELSE IF proc = "down"
         THEN LET fresh == FreshCache
              IN  IF CacheHas(fresh.cache, id)
                  THEN <<fresh.heap[CacheRef(fresh.cache, id)]>>
                  ELSE <<>>
         ELSE IF IdxHas(session_index, id)
              THEN LoadIndividualSession(files, id)
              ELSE <<>>

\* C32: as long as a chat entity is there, no step (a chat turn, an update of
\* last_accessed, a step of a flush, a shutdown and reload) changes its caption
\* or its created_at, and an index record of the entity, in memory or in the
\* index file, has the caption and created_at of the entity.
C32_CaptionAndCreationStable ==
    [][\A id \in Ids :
          LET before == EntityOf(id)
              after == EntityOf(id)'
              stored == LoadSessionIndex(indexFile')
          IN  after # <<>>
              => /\ before # <<>>
                    => /\ after[1].caption = before[1].caption
                       /\ after[1].created_at = before[1].created_at
                 /\ IdxHas(session_index', id)
                    => /\ IdxGet(session_index', id).caption = after[1].caption
                       /\ IdxGet(session_index', id).created_at = after[1].created_at
                 /\ IdxHas(stored, id)
                    => /\ IdxGet(stored, id).caption = after[1].caption
                       /\ IdxGet(stored, id).created_at = after[1].created_at]_vars

C32_Witness ==
    \E id \in Ids :
        /\ proc = "up"
        /\ CacheHas(chat_sessions, id)
        /\ heap[CacheRef(chat_sessions, id)].created_at = 0
        /\ heap[CacheRef(chat_sessions, id)].last_accessed = MaxClock
        /\ now = MaxClock
        /\ Len(heap[CacheRef(chat_sessions, id)].messages) >= 2
        /\ IdxHas(session_index, id)
        /\ IdxHas(LoadSessionIndex(indexFile), id)
        /\ IdxGet(LoadSessionIndex(indexFile), id).last_accessed = MaxClock
        /\ LoadIndividualSession(files, id) # <<>>
        /\ LoadIndividualSession(files, id)[1].last_accessed = MaxClock

\* ------------------------------------ the recent-context window
MaxContextMsgs == 3
MaxContext == 4

\* The turns a stored session can hold, as routes/chat.py appends them: role,
\* content and timestamp.
StoredTurns == [role : {"user", "assistant"}, content : {"a", "b"}, timestamp : {0}]

\* What get_session_lazy can return to get_session_context: None (<<>>) or a
\* session dict with its messages.
ContextSessions ==
    {<<>>} \cup {<<[messages |-> m]>> :
                   m \in UNION {[1..k -> StoredTurns] : k \in 0..MaxContextMsgs}}

GetSessionContextTakesFirst(sd, max_messages) ==
    IF sd = <<>> THEN <<>>
    ELSE LET messages == sd[1].messages
             recent_messages == IF Len(messages) > max_messages
                                THEN PySlice(messages, 0, max_messages)
                                ELSE messages
         IN  [i \in 1..Len(recent_messages) |->
                [role |-> recent_messages[i].role, content |-> recent_messages[i].content]]

\* services/chat.py get_session_context: [] for no session, else
\* messages[-max_messages:] when there are more than max_messages messages and
\* all of them otherwise, each as {"role", "content"}.
GetSessionContext(sd, max_messages) ==
    IF sd = <<>> THEN <<>>
    ELSE LET messages == sd[1].messages
             recent_messages == IF Len(messages) > max_messages
                                THEN PySlice(messages, -max_messages, Len(messages))
                                ELSE messages
         IN  [i \in 1..Len(recent_messages) |->
                [role |-> recent_messages[i].role, content |-> recent_messages[i].content]]

\* A call of get_session_context for what get_session_lazy returned.
GetSessionContextCall(sd, max_messages) ==
    /\ ctx.pc = "idle"
    /\ ctx' = [pc |-> "returned", session |-> sd, max_messages |-> max_messages,
               result |-> GetSessionContext(sd, max_messages)]
    /\ UNCHANGED <<chatVars, ragVars, genVars, notesVars, searchVars, chunkVars, capt, status, workerVars, versionVars, promptVars>>

\* The caller has taken the list; the next call can be looked at.
GetSessionContextReturn ==
    /\ ctx.pc = "returned"
    /\ ctx' = NoContext
    /\ UNCHANGED <<chatVars, ragVars, genVars, notesVars, searchVars, chunkVars, capt, status, workerVars, versionVars, promptVars>>

ContextNext ==
    \/ \E sd \in ContextSessions, max_messages \in 0..MaxContext :
          GetSessionContextCall(sd, max_messages)
    \/ GetSessionContextReturn

SpecContext == Init /\ [][ContextNext]_vars

\* C33: for a session with turns M and a bound n >= 1, get_session_context
\* returns the last min(n, |M|) turns of M in their order, each with its role
\* and content only; for an absent session it returns the empty list.
C33_RecentContextWindow ==
    (ctx.pc = "returned" /\ ctx.max_messages >= 1)
    => IF ctx.session = <<>>
       THEN ctx.result = <<>>
       ELSE LET M == ctx.session[1].messages
                k == Min(ctx.max_messages, Len(M))
            IN  /\ Len(ctx.result) = k
                /\ \A i \in 1..k :
                     /\ DOMAIN ctx.result[i] = {"role", "content"}
                     /\ ctx.result[i].role = M[Len(M) - k + i].role
                     /\ ctx.result[i].content = M[Len(M) - k + i].content

\* A session with three different turns asked for its last two.
C33_Witness ==
    /\ ctx.pc = "returned"
    /\ ctx.max_messages = 2
    /\ ctx.session # <<>>
    /\ Len(ctx.session[1].messages) = 3
    /\ ctx.session[1].messages[1] # ctx.session[1].messages[3]
    /\ Len(ctx.result) = 2

\* C34: every step that changes a cached chat entity (appends a turn, clears
\* is_new, updates last_accessed) leaves the dirty flag of the entity set, so
\* that a later flush writes the change.
C34_MutationsMarkDirty ==
    [][\A id \in Ids :
          LET r == CacheRef(chat_sessions, id)
          IN  (/\ proc = "up" /\ proc' = "up"
               /\ CacheHas(chat_sessions, id) /\ CacheHas(chat_sessions', id)
               /\ CacheRef(chat_sessions', id) = r
               /\ \/ heap'[r].messages # heap[r].messages
                  \/ heap'[r].is_new # heap[r].is_new
                  \/ heap'[r].last_accessed # heap[r].last_accessed)
              => heap'[r].modified]_vars

\* ------------------------------------ the auto-save thread, statement by statement
\* storage.py auto_save_worker, start_auto_save and cleanup_on_exit with every
\* test and call of the loop as a step of its own: a thread is at its `while`
\* test, in time.sleep, at the `if` test, about to call save_sessions, or inside
\* it.  save_sessions itself is one step here (its steps are in Step).
MaxStarts == 4
MaxWorkers == 3

Workers == 1..Len(autosave.pcs)

\* Thread.is_alive()
IsAlive(w) == autosave.pcs[w] # "dead"

AutoSaveFrame ==
    UNCHANGED <<chatVars, ragVars, genVars, notesVars, searchVars, chunkVars, replyVars,
                versionVars, promptVars>>

\* start_auto_save: a thread is created and started only when there is none or
\* the last one is no longer alive.
StartAutoSave ==
    /\ autosave.main = "idle"
    /\ autosave.calls < MaxStarts
    /\ IF autosave.thread = 0 \/ ~IsAlive(autosave.thread)
       THEN /\ Len(autosave.pcs) < MaxWorkers
            /\ autosave' = [autosave EXCEPT !.pcs = Append(@, "while"),
                                            !.thread = Len(autosave.pcs) + 1,
                                            !.calls = @ + 1]
       ELSE autosave' = [autosave EXCEPT !.calls = @ + 1]
    /\ AutoSaveFrame

\* while not settings._shutdown:
WorkerWhile(w) ==
    /\ autosave.pcs[w] = "while"
    /\ autosave' = [autosave EXCEPT !.pcs[w] = IF autosave.shutdown THEN "dead" ELSE "sleep"]
    /\ AutoSaveFrame

\* time.sleep(30) returns.
WorkerSleep(w) ==
    /\ autosave.pcs[w] = "sleep"
    /\ autosave' = [autosave EXCEPT !.pcs[w] = "test"]
    /\ AutoSaveFrame

\* if not settings._shutdown and (settings.chat_sessions or settings.session_index):
WorkerTest(w, nonempty) ==
    /\ autosave.pcs[w] = "test"
    /\ autosave' = [autosave EXCEPT !.pcs[w] = IF ~autosave.shutdown /\ nonempty
                                               THEN "call" ELSE "while"]
    /\ AutoSaveFrame

\* save_sessions() is entered.
WorkerCall(w) ==
    /\ autosave.pcs[w] = "call"
    /\ autosave' = [autosave EXCEPT !.pcs[w] = "save"]
    /\ AutoSaveFrame

\* save_sessions() returns.
WorkerSaved(w) ==
    /\ autosave.pcs[w] = "save"
    /\ autosave' = [autosave EXCEPT !.pcs[w] = "while"]
    /\ AutoSaveFrame

WorkerStep(w) ==
    \/ WorkerWhile(w)
    \/ WorkerSleep(w)
    \/ \E nonempty \in BOOLEAN : WorkerTest(w, nonempty)
    \/ WorkerCall(w)
    \/ WorkerSaved(w)

\* cleanup_on_exit: settings._shutdown = True
AutoSaveCleanup ==
    /\ autosave.main = "idle"
    /\ autosave' = [autosave EXCEPT !.shutdown = TRUE, !.main = "join"]
    /\ AutoSaveFrame

\* cleanup_on_exit: join(timeout=5) when the thread is alive; it returns when
\* the thread has ended or when the five seconds are over.
AutoSaveJoin ==
    /\ autosave.main = "join"
    /\ autosave' = [autosave EXCEPT !.main = "final"]
    /\ AutoSaveFrame

\* cleanup_on_exit: the final save_sessions, and the return.
AutoSaveFinal ==
    /\ autosave.main = "final"
    /\ autosave' = [autosave EXCEPT !.main = "idle"]
    /\ AutoSaveFrame

WorkerNext ==
    \/ StartAutoSave
    \/ \E w \in Workers : WorkerStep(w)
    \/ AutoSaveCleanup
    \/ AutoSaveJoin
    \/ AutoSaveFinal

SpecWorker == Init /\ [][WorkerNext]_vars

\* A thread that can run does run, and time.sleep(30) ends.
SpecWorkerLive == SpecWorker /\ WF_vars(\E w \in Workers : WorkerStep(w))

\* C35: the worker enters save_sessions only while the shutdown flag is clear;
\* once the flag is set every worker ends; and at no time is more than one
\* worker alive, however often start_auto_save is called.
C35_WorkerRespectsShutdown ==
    /\ [][\A w \in Workers :
            (autosave.pcs[w] # "save" /\ autosave'.pcs[w] = "save") => ~autosave.shutdown]_vars
    /\ [](Cardinality({w \in Workers : IsAlive(w)}) <= 1)
    /\ (autosave.shutdown ~> \A w \in Workers : ~IsAlive(w))

\* ------------------------------------ code notes: the versions of a history
MaxVersions == 4
MaxEntries == 3

Codes == {"v1_code", "a"}

\* session_data['v1_code']
V1Code == "v1_code"

HistoryIds == 1..MaxHistories

\* f'v{n}' and int(version[1:]): a version name is the letter and the number.
VersionName(n) == <<"v", n>>
VersionNum(version) == version[2]

V1 == VersionName(1)

NewVersionSkipsOne(current_version) ==
    IF current_version = V1 THEN VersionName(3)
    ELSE VersionName(VersionNum(current_version) + 2)

\* chat_interaction_service: 'v2' after 'v1', else the number of
\* current_version plus one.
NewVersion(current_version) ==
    IF current_version = V1 THEN VersionName(2)
    ELSE VersionName(VersionNum(current_version) + 1)

\* chat_interaction_service: the dict of a history just created.
NewHistory == [current_version |-> V1, chat_memory |-> <<>>, versions |-> <<>>]

\* The versions dict as a sequence of (name, record) pairs in insertion order.
VersionKeys(versions) == {versions[i][1] : i \in 1..Len(versions)}

VersionGet(versions, version) ==
    LET i == CHOOSE i \in 1..Len(versions) : versions[i][1] = version IN versions[i][2]

\* dict[key] = value: a key there keeps its place, a new key goes last.
VersionPut(versions, version, rec) ==
    IF version \in VersionKeys(versions)
    THEN [i \in 1..Len(versions) |->
            IF versions[i][1] = version THEN <<version, rec>> ELSE versions[i]]
    ELSE Append(versions, <<version, rec>>)

\* The code chat_interaction_service works on: v1_code for 'v1', else the code
\* of current_version, v1_code when versions has no such key.
CurrentCode(history_data) ==
    IF history_data.current_version = V1 THEN V1Code
    ELSE IF history_data.current_version \in VersionKeys(history_data.versions)
         THEN VersionGet(history_data.versions, history_data.current_version).code
         ELSE V1Code

\* chat_interaction_service from `new_version = current_version` to the append
\* to chat_memory.
Interact(history_data, code_changed, new_code) ==
    LET current_version == history_data.current_version
        new_version == IF code_changed THEN NewVersion(current_version) ELSE current_version
        chat_entry == [code_changed |-> code_changed, version |-> new_version]
    IN  [current_version |-> new_version,
         chat_memory |-> Append(history_data.chat_memory, chat_entry),
         versions |-> IF code_changed
                      THEN VersionPut(history_data.versions, new_version, [code |-> new_code])
                      ELSE history_data.versions]

RECURSIVE WriteVersions(_, _)
\* save_session_data: a code file and a metadata file for each version of the
\* history; files written earlier stay in the folder.
WriteVersions(folder, versions) ==
    IF versions = <<>> THEN folder
    ELSE WriteVersions(VersionPut(folder, versions[1][1], versions[1][2]), Tail(versions))

\* save_session_data for the histories of the session: history_metadata.json,
\* chat_memory.json and the versions folder of every history in memory.
SaveSessionData(mem, disk) ==
    [h \in HistoryIds |->
        IF mem[h] = <<>> THEN disk[h]
        ELSE <<[current_version |-> mem[h][1].current_version,
                chat_memory |-> mem[h][1].chat_memory,
                versions |-> WriteVersions(IF disk[h] = <<>> THEN <<>> ELSE disk[h][1].versions,
                                           mem[h][1].versions)]>>]

\* POST /chat of code notes -> chat_interaction_service: a new history for
\* history_id None, modify_code_with_chat (which reports a change only with a
\* code different from the current one), the new version, the chat entry and
\* save_session_data.
ChatInteraction(history_id, code_changed, new_code) ==
    /\ IF history_id = 0
       THEN notebook.drawn < MaxHistories
       ELSE notebook.mem[history_id] # <<>>
    /\ LET h == IF history_id = 0 THEN notebook.drawn + 1 ELSE history_id
           history_data == IF history_id = 0 THEN NewHistory ELSE notebook.mem[h][1]
           mem == [notebook.mem EXCEPT ![h] = <<Interact(history_data, code_changed, new_code)>>]
       IN  /\ Len(history_data.chat_memory) < MaxEntries
           /\ code_changed => (new_code # CurrentCode(history_data)
                               /\ VersionNum(history_data.current_version) < MaxVersions)
           /\ notebook' = [mem |-> mem,
                           disk |-> SaveSessionData(mem, notebook.disk),
                           drawn |-> IF history_id = 0 THEN h ELSE notebook.drawn]
    /\ UNCHANGED <<chatVars, ragVars, genVars, notesVars, searchVars, chunkVars, replyVars,
                   workerVars, promptVars>>

\* delete_history_service: the history leaves the dict, its folder is removed,
\* save_session_data.
DeleteHistory(history_id) ==
    /\ notebook.mem[history_id] # <<>>
    /\ LET mem == [notebook.mem EXCEPT ![history_id] = <<>>]
       IN  notebook' = [notebook EXCEPT
                          !.mem = mem,
                          !.disk = SaveSessionData(mem, [notebook.disk EXCEPT ![history_id] = <<>>])]
    /\ UNCHANGED <<chatVars, ragVars, genVars, notesVars, searchVars, chunkVars, replyVars,
                   workerVars, promptVars>>

\* A restart and load_session_data: every history folder gives a history with
\* the current_version of its metadata, its chat memory and the versions found
\* in its versions folder.
LoadHistories ==
    /\ notebook' = [notebook EXCEPT !.mem = notebook.disk]
    /\ notebook'.mem # notebook.mem \/ notebook.drawn > 0
    /\ UNCHANGED <<chatVars, ragVars, genVars, notesVars, searchVars, chunkVars, replyVars,
                   workerVars, promptVars>>

VersionNext ==
    \/ \E history_id \in {0} \cup HistoryIds, code_changed \in BOOLEAN, new_code \in Codes :
          ChatInteraction(history_id, code_changed, new_code)
    \/ \E history_id \in HistoryIds : DeleteHistory(history_id)
    \/ LoadHistories

SpecVersions == Init /\ [][VersionNext]_vars

\* The step is an interaction with history h: its chat memory has grown by one.
Interacted(h) ==
    /\ notebook'.mem[h] # <<>>
    /\ Len(notebook'.mem[h][1].chat_memory) =
         (IF notebook.mem[h] = <<>> THEN 0 ELSE Len(notebook.mem[h][1].chat_memory)) + 1

\* C36: in every history current_version is v1 when versions is empty and else
\* the key of versions with the highest number, and the keys are exactly
\* v2..vN; an interaction that changes the code adds exactly one version, one
\* above the previous current_version, overwrites none, and its chat entry
\* records that version; an interaction that does not change the code leaves
\* versions and current_version as they were.
C36_VersionScheme ==
    /\ [](\A h \in HistoryIds :
            notebook.mem[h] # <<>>
            => LET hd == notebook.mem[h][1]
                   N == VersionNum(hd.current_version)
               IN  /\ hd.versions = <<>> => hd.current_version = V1
                   /\ VersionKeys(hd.versions) = {VersionName(n) : n \in 2..N})
    /\ [][\A h \in HistoryIds :
            Interacted(h)
            => LET before == IF notebook.mem[h] = <<>> THEN NewHistory ELSE notebook.mem[h][1]
                   after == notebook'.mem[h][1]
                   entry == after.chat_memory[Len(after.chat_memory)]
               IN  IF entry.code_changed
                   THEN /\ VersionNum(after.current_version) =
                             VersionNum(before.current_version) + 1
                        /\ after.current_version \notin VersionKeys(before.versions)
                        /\ VersionKeys(after.versions) =
                             VersionKeys(before.versions) \cup {after.current_version}
                        /\ \A v \in VersionKeys(before.versions) :
                             VersionGet(after.versions, v) = VersionGet(before.versions, v)
                        /\ entry.version = after.current_version
                   ELSE /\ after.versions = before.versions
                        /\ after.current_version = before.current_version]_vars

\* A history reloaded from its folder with versions v2 and v3, after an
\* interaction that changed nothing.
C36_Witness ==
    /\ notebook.mem[1] # <<>>
    /\ notebook.mem[1] = notebook.disk[1]
    /\ notebook.mem[1][1].current_version = VersionName(3)
    /\ Len(notebook.mem[1][1].versions) = 2
    /\ Len(notebook.mem[1][1].chat_memory) = 3
    /\ \E i \in 1..3 : ~notebook.mem[1][1].chat_memory[i].code_changed

\* save_individual_session(id, ...) is running in thread t.
Saving(t, id) ==
    th[t].sid = id /\ th[t].pc \in {"sis_open", "sis_write", "sis_replace", "sis_index"}

\* C37: whenever no save_individual_session of a session is in progress, the
\* index record of the session has the message_count, caption, created_at and
\* last_accessed of the session file.
C37_IndexMatchesFile ==
    \A id \in Ids :
        (/\ proc = "up"
         /\ IdxHas(session_index, id)
         /\ Exists(files[id])
         /\ \A t \in Threads : ~Saving(t, id))
        => /\ LoadIndividualSession(files, id) # <<>>
           /\ LET stored == LoadIndividualSession(files, id)[1]
                  summary == IdxGet(session_index, id)
              IN  /\ summary.message_count = Len(stored.messages)
                  /\ summary.caption = stored.caption
                  /\ summary.created_at = stored.created_at
                  /\ summary.last_accessed = stored.last_accessed

\* ------------------------------------ RAG: session record and vector store
\* Uploads of documents of several chunks and deletions, where a write can
\* raise: upload_documents_service reports it in errors, delete_document_service
\* returns {"error": ...}.
RagErrNext ==
    \/ DocsNext
    \/ RagWriteFail

SpecRagErr == Init /\ [][RagErrNext]_vars

RECURSIVE SumCounts(_, _)
\* sum(doc['chunk_count'] for doc in documents.values())
SumCounts(chunk_count, docs) ==
    IF docs = {} THEN 0
    ELSE LET d == CHOOSE d \in docs : TRUE
         IN  chunk_count[d] + SumCounts(chunk_count, docs \ {d})

\* C38: when no service call is running, the document ids of the session record
\* are those that occur in the vector metadata, the chunk_count of each
\* document is the number of its metadata records, and the index holds as many
\* vectors as the chunk_counts add up to; also after calls that returned an
\* error.
C38_RecordAndStoreAgree ==
    (rag.op = "idle" /\ LoadSessionData # <<>>)
    => /\ LoadVectorStore.ok
       /\ LET record == LoadSessionData[1]
              v == LoadVectorStore
          IN  /\ {v.metadata[i].document_id : i \in 1..Len(v.metadata)} = record.documents
              /\ \A d \in record.documents :
                    record.chunk_count[d] =
                        Cardinality({i \in 1..Len(v.metadata) : v.metadata[i].document_id = d})
              /\ Len(v.index) = SumCounts(record.chunk_count, record.documents)

\* ------------------------------------ the message list sent to the model
MaxPairs == 5

\* services/chat.py get_session_context(session_id, max_messages=10)
DEFAULT_MAX_MESSAGES == 10

\* settings.SYSTEM_PROMPT
SYSTEM_PROMPT == "system prompt"

Contents == {"a", "b"}

\* The sessions a chat request can meet: none (no session_id, so that
\* create_new_session makes one: no messages, is_new), or a session with
\* complete turns, a user message and the assistant message after it, whose
\* is_new the first response has cleared.
PromptSessions ==
    {[messages |-> <<>>, is_new |-> TRUE]}
    \cup UNION {{[messages |-> [i \in 1..(2 * k) |->
                                 [role |-> IF i % 2 = 1 THEN "user" ELSE "assistant",
                                  content |-> c[i], timestamp |-> 0]],
                  is_new |-> FALSE] : c \in [1..(2 * k) -> Contents]} : k \in 1..MaxPairs}

\* routes/chat.py chat_stream: the user message is appended to the session
\* before the response generator runs.
StoreUserMessage(sd, query) ==
    [sd EXCEPT !.messages = Append(@, [role |-> "user", content |-> query, timestamp |-> 0])]

\* services/chat.py get_ollama_streaming_response: the system prompt for a
\* session that is new, the messages of get_session_context(session_id), then
\* the current message.
BuildMessages(sd, query) ==
    (IF sd.is_new THEN <<[role |-> "system", content |-> SYSTEM_PROMPT]>> ELSE <<>>)
    \o GetSessionContext(<<sd>>, DEFAULT_MAX_MESSAGES)
    \o <<[role |-> "user", content |-> query]>>

\* POST /chat up to ollama.chat(messages=...): chat_stream stores the user
\* message, the generator builds the list from the session as it is then.
ChatPrompt(sd, query) ==
    /\ prompt.pc = "idle"
    /\ prompt' = [pc |-> "sent", session |-> <<sd>>, query |-> query,
                  messages |-> BuildMessages(StoreUserMessage(sd, query), query)]
    /\ UNCHANGED <<chatVars, ragVars, genVars, notesVars, searchVars, chunkVars, replyVars,
                   workerVars, versionVars>>

\* The response is over; the next request can be looked at.
ChatPromptDone ==
    /\ prompt.pc = "sent"
    /\ prompt' = NoPrompt
    /\ UNCHANGED <<chatVars, ragVars, genVars, notesVars, searchVars, chunkVars, replyVars,
                   workerVars, versionVars>>

PromptNext ==
    \/ \E sd \in PromptSessions, query \in Contents : ChatPrompt(sd, query)
    \/ ChatPromptDone

SpecPrompt == Init /\ [][PromptNext]_vars

\* C39: the list sent to the model is the system prompt when the session is
\* new, then the recent-context window of the turns the session had before the
\* request, then the current query, once, as the last message.
C39_PromptShape ==
    prompt.pc = "sent"
    => LET sd == prompt.session[1]
       IN  prompt.messages =
             (IF sd.is_new THEN <<[role |-> "system", content |-> SYSTEM_PROMPT]>> ELSE <<>>)
             \o GetSessionContext(<<sd>>, DEFAULT_MAX_MESSAGES)
             \o <<[role |-> "user", content |-> prompt.query]>>

====
